---- MODULE Spec2Model ----
(***************************************************************************)
(* A model of json-schema-env-config: the name codec (naming.ts), the      *)
(* value parser (parsing.ts), the schema walker (walking.ts), property     *)
(* discovery (discovery.ts), the environment loader (environment.ts) and   *)
(* the array override engine (override.ts).                                *)
(*                                                                         *)
(* Strings are TLA+ strings; one-character strings stand for characters.   *)
(* JSON values are records with a single field that names their type, so   *)
(* that values of different types are comparable:                          *)
(*   [null |-> TRUE]  [bool |-> b]  [num |-> <<m, e>>]  [str |-> s]        *)
(*   [arr |-> <<v1, ..., vn>>]      [obj |-> [key |-> value]]              *)
(* A number <<m, e>> is m * 10^(-e), with e >= 0 as small as possible.     *)
(* JavaScript's undefined is [undef |-> TRUE]; a thrown exception is       *)
(* [throw |-> <class>].                                                    *)
(***************************************************************************)
EXTENDS Integers, Sequences, FiniteSets, TLC

VARIABLES
    op,           \* the exported function this run calls
    args,         \* the arguments of a pure-function call
    ret,          \* what the call returned (or threw)
    env,          \* the environment: a sequence of [name, value], in key order
    fs,           \* the file system: a function from file path to content
    schema,       \* the JSON schema passed to the call
    options,      \* the caller's options object
    opts,         \* the options the call works with (after defaulting)
    config,       \* the caller's config object (overrideArrayValues)
    result,       \* the object the call builds: envConfig / the cloned config
    envVarNames,  \* the consumed-names ledger: a sequence of [name, path]
    events,       \* the visitor calls the walk makes, in order
    pc,           \* how many of them have been made
    status,       \* "ready", "running", "returned" or "thrown"
    shared        \* the top-level properties of result whose values are the
                  \* caller's own objects, not copies of them

vars == <<op, args, ret, env, fs, schema, options, opts, config, result,
          envVarNames, events, pc, status, shared>>

-----------------------------------------------------------------------------
(* JavaScript values *)

UNDEFINED == [undef |-> TRUE]
NONE == UNDEFINED

Throw(class) == [throw |-> class]
IsThrow(v) == DOMAIN v = {"throw"}

JNull == [null |-> TRUE]
JBool(b) == [bool |-> b]
JNum(m, e) == [num |-> <<m, e>>]
JInt(n) == JNum(n, 0)
JStr(s) == [str |-> s]
JArr(seq) == [arr |-> seq]
JObj(f) == [obj |-> f]
EmptyObj == JObj(<<>>)

IsUndefined(v) == v = UNDEFINED
IsObj(v) == DOMAIN v = {"obj"}
IsArr(v) == DOMAIN v = {"arr"}
IsNum(v) == DOMAIN v = {"num"}

\* obj[key], undefined when the object has no such key
Get(o, key) == IF key \in DOMAIN o.obj THEN o.obj[key] ELSE UNDEFINED

\* obj[key] = value
Put(o, key, value) ==
    JObj([k \in (DOMAIN o.obj) \cup {key} |->
            IF k = key THEN value ELSE o.obj[k]])

-----------------------------------------------------------------------------
(* Strings *)

\* the characters at the 1-based positions a..b that the string has
Sub(s, a, b) ==
    LET lo == IF a < 1 THEN 1 ELSE a
        hi == IF b > Len(s) THEN Len(s) ELSE b
    IN  IF lo > hi THEN "" ELSE SubSeq(s, lo, hi)

\* the character at 1-based position i, "" outside the string
Ch(s, i) == Sub(s, i, i)

StartsWith(s, p) == Len(p) <= Len(s) /\ Sub(s, 1, Len(p)) = p

EndsWith(s, p) ==
    Len(p) <= Len(s) /\ Sub(s, Len(s) - Len(p) + 1, Len(s)) = p

\* String.prototype.substring(from) and substring(from, to), 0-based
SubstringFrom(s, from) == Sub(s, from + 1, Len(s))
Substring(s, from, to) == Sub(s, from + 1, to)

\* String.prototype.indexOf: the 0-based index of the first occurrence, or -1
IndexOf(s, p) ==
    LET hits == {i \in 0..(Len(s) - Len(p)) : Sub(s, i + 1, i + Len(p)) = p}
    IN  IF hits = {} THEN -1
        ELSE CHOOSE i \in hits : \A j \in hits : i <= j

LowerChars == <<"a","b","c","d","e","f","g","h","i","j","k","l","m",
                "n","o","p","q","r","s","t","u","v","w","x","y","z">>
UpperChars == <<"A","B","C","D","E","F","G","H","I","J","K","L","M",
                "N","O","P","Q","R","S","T","U","V","W","X","Y","Z">>
DigitChars == <<"0","1","2","3","4","5","6","7","8","9">>

Range(seq) == {seq[i] : i \in DOMAIN seq}

IsLower(c) == c \in Range(LowerChars)
IsUpper(c) == c \in Range(UpperChars)
IsDigit(c) == c \in Range(DigitChars)

PosIn(seq, c) == CHOOSE i \in DOMAIN seq : seq[i] = c

LowerCh(c) == IF IsUpper(c) THEN LowerChars[PosIn(UpperChars, c)] ELSE c
UpperCh(c) == IF IsLower(c) THEN UpperChars[PosIn(LowerChars, c)] ELSE c

RECURSIVE MapChars(_, _)
MapChars(s, upper) ==
    IF s = "" THEN ""
    ELSE (IF upper THEN UpperCh(Ch(s, 1)) ELSE LowerCh(Ch(s, 1)))
         \o MapChars(Sub(s, 2, Len(s)), upper)

ToLowerCase(s) == MapChars(s, FALSE)
ToUpperCase(s) == MapChars(s, TRUE)

\* String.prototype.trim, for the space character
RECURSIVE TrimLeft(_)
TrimLeft(s) ==
    IF s # "" /\ Ch(s, 1) = " " THEN TrimLeft(Sub(s, 2, Len(s))) ELSE s

RECURSIVE TrimRight(_)
TrimRight(s) ==
    IF s # "" /\ Ch(s, Len(s)) = " "
    THEN TrimRight(Sub(s, 1, Len(s) - 1)) ELSE s

Trim(s) == TrimRight(TrimLeft(s))

\* String.prototype.split(sep) for a one-character separator
RECURSIVE Split(_, _)
Split(s, sep) ==
    LET i == IndexOf(s, sep)
    IN  IF i = -1 THEN <<s>>
        ELSE <<Substring(s, 0, i)>> \o Split(SubstringFrom(s, i + 1), sep)

\* Array.prototype.join
RECURSIVE Join(_, _)
Join(parts, sep) ==
    IF parts = <<>> THEN ""
    ELSE IF Len(parts) = 1 THEN parts[1]
    ELSE parts[1] \o sep \o Join(Tail(parts), sep)

-----------------------------------------------------------------------------
(* lodash snakeCase, on ASCII letters, digits and separators: the words of *)
(* the name (lodash words()), lower-cased and joined by "_".               *)

\* the end (exclusive, 1-based) of the run of characters of one class at i
RECURSIVE RunEnd(_, _, _)
RunEnd(s, i, class) ==
    IF i <= Len(s)
       /\ (CASE class = "lower" -> IsLower(Ch(s, i))
             [] class = "upper" -> IsUpper(Ch(s, i))
             [] OTHER -> IsDigit(Ch(s, i)))
    THEN RunEnd(s, i + 1, class)
    ELSE i

\* the end (exclusive) of the word that starts at the letter or digit at i
WordEnd(s, i) ==
    LET c == Ch(s, i)
        u == RunEnd(s, i, "upper")
    IN  IF IsDigit(c) THEN RunEnd(s, i, "digit")
        ELSE IF IsLower(c) THEN RunEnd(s, i, "lower")
        ELSE IF u <= Len(s) /\ IsLower(Ch(s, u))
             THEN (IF u - i = 1 THEN RunEnd(s, u, "lower") ELSE u - 1)
             ELSE u

RECURSIVE Words(_, _)
Words(s, i) ==
    IF i > Len(s) THEN <<>>
    ELSE IF ~(IsLower(Ch(s, i)) \/ IsUpper(Ch(s, i)) \/ IsDigit(Ch(s, i)))
    THEN Words(s, i + 1)
    ELSE <<Sub(s, i, WordEnd(s, i) - 1)>> \o Words(s, WordEnd(s, i))

snakeCase(name) == ToLowerCase(Join(Words(name, 1), "_"))

-----------------------------------------------------------------------------
(* naming.ts *)

SnakeCaseStyle == "snake_case"
ScreamingStyle == "SCREAMING_SNAKE_CASE"

transformPropertyName(name, o) ==
    IF o.case = SnakeCaseStyle
    THEN snakeCase(name)
    ELSE ToUpperCase(snakeCase(name))

PathItemName(pathItem, o) ==
    IF pathItem.named
    THEN transformPropertyName(pathItem.value, o)
    ELSE pathItem.value

\* a getEnvVarName that joins the prefix without a separator
getEnvVarNameGluedPrefix(configPropertyPath, o) ==
    o.prefix \o Join([i \in DOMAIN configPropertyPath |->
                        PathItemName(configPropertyPath[i], o)],
                     o.propertySeparator)

getEnvVarName(configPropertyPath, o) ==
    LET name == Join([i \in DOMAIN configPropertyPath |->
                        PathItemName(configPropertyPath[i], o)],
                     o.propertySeparator)
    IN  IF o.prefix # ""
        THEN o.prefix \o o.propertySeparator \o name
        ELSE name

-----------------------------------------------------------------------------
(* JSON.parse, for texts without string escapes and with the space as the  *)
(* only whitespace.  A parse is [ok, val, next]: whether a value was read  *)
(* at the position, the value, and the position after it.                  *)

RECURSIVE Pow10(_)
Pow10(n) == IF n = 0 THEN 1 ELSE 10 * Pow10(n - 1)

DigitValue(c) == PosIn(DigitChars, c) - 1

RECURSIVE ToNat(_)
ToNat(digits) ==
    IF digits = "" THEN 0
    ELSE 10 * ToNat(Sub(digits, 1, Len(digits) - 1))
         + DigitValue(Ch(digits, Len(digits)))

\* the number m * 10^(-e) with e as small as possible
RECURSIVE Normalise(_, _)
Normalise(m, e) ==
    IF m = 0 THEN <<0, 0>>
    ELSE IF e > 0 /\ m % 10 = 0 THEN Normalise(m \div 10, e - 1)
    ELSE <<m, e>>

\* m * 10^(-e) * 10^x
Scale(m, e, x) ==
    IF x >= e THEN Normalise(m * Pow10(x - e), 0) ELSE Normalise(m, e - x)

JFail == [ok |-> FALSE, val |-> UNDEFINED, next |-> 0]
JOk(v, next) == [ok |-> TRUE, val |-> v, next |-> next]

RECURSIVE SkipWs(_, _)
SkipWs(s, i) == IF Ch(s, i) = " " THEN SkipWs(s, i + 1) ELSE i

JLiteral(s, i, word, v) ==
    IF Sub(s, i, i + Len(word) - 1) = word THEN JOk(v, i + Len(word))
    ELSE JFail

\* the number whose sign starts at i, integer part at i1, fraction point at
\* i2, exponent mark at i3, exponent digits at xs, and that ends before i4
JNumberValue(s, i, i1, i2, i3, xs, i4, frac, exponent) ==
    JNum(Scale(IF i1 > i THEN 0 - ToNat(Sub(s, i1, i2 - 1) \o frac)
               ELSE ToNat(Sub(s, i1, i2 - 1) \o frac),
               Len(frac),
               IF i4 = i3 THEN 0
               ELSE IF Ch(s, i3 + 1) = "-" THEN 0 - exponent
               ELSE exponent)[1],
         Scale(IF i1 > i THEN 0 - ToNat(Sub(s, i1, i2 - 1) \o frac)
               ELSE ToNat(Sub(s, i1, i2 - 1) \o frac),
               Len(frac),
               IF i4 = i3 THEN 0
               ELSE IF Ch(s, i3 + 1) = "-" THEN 0 - exponent
               ELSE exponent)[2])

JNumberEnd(s, i, i1, i2, i3, xs, i4) ==
    IF i2 = i1 \/ (Ch(s, i2) = "." /\ i3 = i2 + 1)
       \/ (Ch(s, i3) \in {"e", "E"} /\ i4 = xs)
    THEN JFail
    ELSE JOk(JNumberValue(s, i, i1, i2, i3, xs, i4,
                          Sub(s, i2 + 1, i3 - 1),
                          ToNat(Sub(s, xs, i4 - 1))),
             i4)

JNumberExponent(s, i, i1, i2, i3, xs) ==
    JNumberEnd(s, i, i1, i2, i3, xs,
               IF Ch(s, i3) \in {"e", "E"} THEN RunEnd(s, xs, "digit") ELSE i3)

JNumberFraction(s, i, i1, i2, i3) ==
    JNumberExponent(s, i, i1, i2, i3,
                    IF Ch(s, i3 + 1) \in {"+", "-"} THEN i3 + 2 ELSE i3 + 1)

JNumberInteger(s, i, i1, i2) ==
    JNumberFraction(s, i, i1, i2,
                    IF Ch(s, i2) = "." THEN RunEnd(s, i2 + 1, "digit") ELSE i2)

JNumberSign(s, i, i1) ==
    JNumberInteger(s, i, i1,
                   IF Ch(s, i1) = "0" THEN i1 + 1 ELSE RunEnd(s, i1, "digit"))

\* -? (0 | [1-9][0-9]*) (. [0-9]+)? ([eE] [+-]? [0-9]+)?
JNumber(s, i) == JNumberSign(s, i, IF Ch(s, i) = "-" THEN i + 1 ELSE i)

JStringText(s, i, close, text) ==
    IF Ch(s, i) # "\"" \/ close = -1 \/ IndexOf(text, "\\") # -1
    THEN JFail
    ELSE JOk(JStr(text), i + close + 2)

JStringClose(s, i, rest, close) ==
    JStringText(s, i, close, Substring(rest, 0, close))

JStringRest(s, i, rest) == JStringClose(s, i, rest, IndexOf(rest, "\""))

\* "..." : the text up to the next double quote, which may hold no backslash
JString(s, i) == JStringRest(s, i, Sub(s, i + 1, Len(s)))

RECURSIVE JValue(_, _)
RECURSIVE JElements(_, _, _)
RECURSIVE JMembers(_, _, _)

JElementsNext(s, acc, j) ==
    IF Ch(s, j) = "," THEN JElements(s, j + 1, acc)
    ELSE IF Ch(s, j) = "]" THEN JOk(JArr(acc), j + 1)
    ELSE JFail

JElement(s, acc, v) ==
    IF ~v.ok THEN JFail
    ELSE JElementsNext(s, Append(acc, v.val), SkipWs(s, v.next))

\* the elements of an array after "[" or ",": value (, value)* ]
JElements(s, i, acc) == JElement(s, acc, JValue(s, SkipWs(s, i)))

JMembersNext(s, acc, j) ==
    IF Ch(s, j) = "," THEN JMembers(s, j + 1, acc)
    ELSE IF Ch(s, j) = "}" THEN JOk(acc, j + 1)
    ELSE JFail

JMemberValue(s, acc, k, v) ==
    IF ~v.ok THEN JFail
    ELSE JMembersNext(s, Put(acc, k.val.str, v.val), SkipWs(s, v.next))

JMemberColon(s, acc, k, c) ==
    IF Ch(s, c) # ":" THEN JFail
    ELSE JMemberValue(s, acc, k, JValue(s, SkipWs(s, c + 1)))

JMemberKey(s, acc, k) ==
    IF ~k.ok THEN JFail ELSE JMemberColon(s, acc, k, SkipWs(s, k.next))

\* the members of an object after "{" or ",": string : value (, ...)* }
JMembers(s, i, acc) == JMemberKey(s, acc, JString(s, SkipWs(s, i)))

JValueAt(s, i, c, j) ==
    CASE c = "n" -> JLiteral(s, i, "null", JNull)
      [] c = "t" -> JLiteral(s, i, "true", JBool(TRUE))
      [] c = "f" -> JLiteral(s, i, "false", JBool(FALSE))
      [] c = "\"" -> JString(s, i)
      [] c = "[" -> IF Ch(s, j) = "]" THEN JOk(JArr(<<>>), j + 1)
                    ELSE JElements(s, i + 1, <<>>)
      [] c = "{" -> IF Ch(s, j) = "}" THEN JOk(EmptyObj, j + 1)
                    ELSE JMembers(s, i + 1, EmptyObj)
      [] c = "-" \/ IsDigit(c) -> JNumber(s, i)
      [] OTHER -> JFail

\* the value that starts at i; j is where the text goes on after i
JValue(s, i) == JValueAt(s, i, Ch(s, i), SkipWs(s, i + 1))

JSONParsed(text, v) ==
    IF v.ok /\ SkipWs(text, v.next) = Len(text) + 1
    THEN v.val
    ELSE Throw("SyntaxError")

\* JSON.parse(text): the value, or a thrown SyntaxError
JSONParse(text) == JSONParsed(text, JValue(text, SkipWs(text, 1)))

-----------------------------------------------------------------------------
(* JSON schemas: records with one field per supported keyword, NONE for a   *)
(* keyword the schema does not have.                                       *)
(*   type: NONE, [t |-> "string"] or [list |-> <<"integer", "string">>]    *)
(*   properties, patternProperties: NONE or [v |-> <<[name, schema]>>],    *)
(*       in declaration order                                              *)
(*   additionalProperties, additionalItems: NONE, a schema or [bool |-> b] *)
(*   items: NONE, a schema, [bool |-> b] or [many |-> <<schema, ...>>]     *)
(*   anyOf, oneOf, allOf: NONE or [v |-> <<schema or [bool |-> b], ...>>]  *)

EmptySchema ==
    [type |-> NONE, properties |-> NONE, patternProperties |-> NONE,
     additionalProperties |-> NONE, items |-> NONE, additionalItems |-> NONE,
     anyOf |-> NONE, oneOf |-> NONE, allOf |-> NONE]

IsBoolean(x) == DOMAIN x = {"bool"}
IsMany(x) == DOMAIN x = {"many"}
IsTypeList(t) == DOMAIN t = {"list"}

Type(t) == [EmptySchema EXCEPT !.type = [t |-> t]]
TypeList(ts) == [EmptySchema EXCEPT !.type = [list |-> ts]]
Prop(name, s) == [name |-> name, schema |-> s]
ObjectOf(props) == [Type("object") EXCEPT !.properties = [v |-> props]]
ArrayOf(items) == [Type("array") EXCEPT !.items = items]

-----------------------------------------------------------------------------
(* parsing.ts *)

parseNull(envVarValue) == IF envVarValue # "null" THEN UNDEFINED ELSE JNull

\* the boolean parse with the letter case of the text ignored
parseBooleanAnyCase(value) ==
    CASE ToLowerCase(value) = "true" -> JBool(TRUE)
      [] ToLowerCase(value) = "false" -> JBool(FALSE)
      [] OTHER -> UNDEFINED

parseBoolean(value) ==
    CASE value = "true" -> JBool(TRUE)
      [] value = "false" -> JBool(FALSE)
      [] OTHER -> UNDEFINED

ObjectOrUndefined(value) ==
    IF IsThrow(value) \/ ~IsObj(value) THEN UNDEFINED ELSE value

\* a parse that lets the failure of JSON.parse through
parseObjectUncaught(envVarValue) ==
    IF IsThrow(JSONParse(envVarValue)) THEN JSONParse(envVarValue)
    ELSE ObjectOrUndefined(JSONParse(envVarValue))

parseObject(envVarValue) == ObjectOrUndefined(JSONParse(envVarValue))

NumberOrUndefined(value) ==
    IF IsThrow(value) \/ ~IsNum(value) THEN UNDEFINED ELSE value

parseNumber(envVarValue) == NumberOrUndefined(JSONParse(envVarValue))

\* number % 1 is non-zero exactly when the number has decimals
IntegerOrUndefined(number) ==
    IF number = UNDEFINED THEN UNDEFINED
    ELSE IF number.num[2] # 0 THEN UNDEFINED
    ELSE number

parseInteger(envVarValue) == IntegerOrUndefined(parseNumber(envVarValue))

allElementsDefined(array) == ~(\E i \in DOMAIN array : array[i] = UNDEFINED)

\* what evaluating the elements in order throws first, if anything
FirstThrown(array) ==
    IF \E i \in DOMAIN array : IsThrow(array[i])
    THEN array[CHOOSE i \in DOMAIN array :
                  /\ IsThrow(array[i])
                  /\ \A j \in 1..(i - 1) : ~IsThrow(array[j])]
    ELSE UNDEFINED

RECURSIVE parseEnvVarValue(_, _)

\* the schema of the CSV element at the 0-based index: a schema, a boolean,
\* or undefined when there is none
\* the item schema with additionalItems left out of the lookup
CSVItemSchemaNoAdditional(index, s) ==
    IF ~IsMany(s.items) THEN s.items
    ELSE IF index < Len(s.items.many) THEN s.items.many[index + 1]
    ELSE UNDEFINED

CSVItemSchema(index, s) ==
    IF ~IsMany(s.items) THEN s.items
    ELSE IF index < Len(s.items.many) THEN s.items.many[index + 1]
    ELSE s.additionalItems

\* one element of the CSV text, 0-based index
parseCSVElement(value, index, s) ==
    IF IsMany(s.items)
    THEN IF CSVItemSchema(index, s) = UNDEFINED
            \/ IsBoolean(CSVItemSchema(index, s))
         THEN UNDEFINED
         ELSE parseEnvVarValue(value, CSVItemSchema(index, s))
    ELSE IF IsBoolean(s.items)
    THEN Throw("UnsupportedSchema")
    ELSE parseEnvVarValue(value, CSVItemSchema(index, s))

CSVArray(value, thrown) ==
    IF thrown # UNDEFINED THEN thrown
    ELSE IF ~allElementsDefined(value) THEN UNDEFINED
    ELSE JArr(value)

CSVElements(value) == CSVArray(value, FirstThrown(value))

CSVParts(parts, s) ==
    CSVElements([i \in DOMAIN parts |-> parseCSVElement(parts[i], i - 1, s)])

parseCSVArray(envVarValue, s) ==
    IF s.items = UNDEFINED THEN UNDEFINED
    ELSE CSVParts(Split(envVarValue, ","), s)

ArrayOrCSV(envVarValue, s, value) ==
    IF IsThrow(value) \/ ~IsArr(value)
    THEN parseCSVArray(envVarValue, s)
    ELSE value

parseArray(envVarValue, s) == ArrayOrCSV(envVarValue, s, JSONParse(envVarValue))

\* a loop over the members of a type list that does not stop at the first
\* defined value: the last one wins
LastDefined(later, value) == IF later # UNDEFINED THEN later ELSE value

RECURSIVE parseWithTypesLast(_, _, _)
parseWithTypesLast(envVarValue, s, k) ==
    IF k > Len(s.type.list) THEN UNDEFINED
    ELSE LastDefined(parseWithTypesLast(envVarValue, s, k + 1),
            parseEnvVarValue(envVarValue,
                             [s EXCEPT !.type = [t |-> s.type.list[k]]]))

RECURSIVE parseWithTypes(_, _, _)

FirstDefined(envVarValue, s, k, value) ==
    IF value # UNDEFINED THEN value
    ELSE parseWithTypes(envVarValue, s, k + 1)

\* the loop over the members of a type list, from member k on
parseWithTypes(envVarValue, s, k) ==
    IF k > Len(s.type.list) THEN UNDEFINED
    ELSE FirstDefined(envVarValue, s, k,
            parseEnvVarValue(envVarValue,
                             [s EXCEPT !.type = [t |-> s.type.list[k]]]))

parseByType(envVarValue, s, propertyType) ==
    CASE propertyType = "null" -> parseNull(envVarValue)
      [] propertyType = "boolean" -> parseBoolean(envVarValue)
      [] propertyType = "object" -> parseObject(envVarValue)
      [] propertyType = "array" -> parseArray(envVarValue, s)
      [] propertyType = "integer" -> parseInteger(envVarValue)
      [] propertyType = "number" -> parseNumber(envVarValue)
      [] propertyType = "string" -> JStr(envVarValue)
      [] OTHER -> Throw("UnsupportedSchema")

parseEnvVarValue(envVarValue, s) ==
    IF IsTypeList(s.type) THEN parseWithTypes(envVarValue, s, 1)
    ELSE IF s.type = UNDEFINED THEN UNDEFINED
    ELSE parseByType(envVarValue, s, s.type.t)

-----------------------------------------------------------------------------
(* new RegExp(pattern, 'u').test(text), for patterns made of literal       *)
(* characters, escaped characters, ".", "^", "$", the postfix "*" on one   *)
(* character, and one level of groups "(a|b|$)".                           *)

\* the length of the atom at ri: an escaped character takes two
AtomLen(re, ri) == IF Ch(re, ri) = "\\" THEN 2 ELSE 1

AtomMatches(re, ri, c) ==
    /\ c # ""
    /\ \/ Ch(re, ri) = "\\" /\ Ch(re, ri + 1) = c
       \/ Ch(re, ri) = "."
       \/ Ch(re, ri) \notin {"\\", "."} /\ Ch(re, ri) = c

\* whether the k characters of text from si on all match the atom at ri
AtomRun(re, ri, text, si, k) ==
    \A d \in 0..(k - 1) : AtomMatches(re, ri, Ch(text, si + d))

\* whether re, from ri on, matches text from si on
RECURSIVE MatchHere(_, _, _, _)
MatchHere(re, ri, text, si) ==
    LET c == Ch(re, ri)
        close == ri + IndexOf(SubstringFrom(re, ri - 1), ")")
        alts == Split(Sub(re, ri + 1, close - 1), "|")
        rest == Sub(re, close + 1, Len(re))
        n == AtomLen(re, ri)
    IN  IF ri > Len(re) THEN TRUE
        ELSE IF c = "^" THEN si = 1 /\ MatchHere(re, ri + 1, text, si)
        ELSE IF c = "$"
        THEN si = Len(text) + 1 /\ MatchHere(re, ri + 1, text, si)
        ELSE IF c = "("
        THEN \E a \in DOMAIN alts : MatchHere(alts[a] \o rest, 1, text, si)
        ELSE IF Ch(re, ri + n) = "*"
        THEN \E k \in 0..(Len(text) + 1 - si) :
                /\ AtomRun(re, ri, text, si, k)
                /\ MatchHere(re, ri + n + 1, text, si + k)
        ELSE /\ AtomMatches(re, ri, Ch(text, si))
             /\ MatchHere(re, ri + n, text, si + 1)

RegExpTest(re, text) ==
    \E si \in 1..(Len(text) + 1) : MatchHere(re, 1, text, si)

\* escapeRegExp: a backslash before each of . * + ? ^ $ { } ( ) | [ ] \
RECURSIVE escapeRegExp(_)
escapeRegExp(string) ==
    IF string = "" THEN ""
    ELSE (IF Ch(string, 1) \in {".", "*", "+", "?", "^", "$", "{", "}",
                                "(", ")", "|", "[", "]", "\\"}
          THEN "\\" \o Ch(string, 1)
          ELSE Ch(string, 1))
         \o escapeRegExp(SubstringFrom(string, 1))

-----------------------------------------------------------------------------
(* walking.ts: paths *)

IN_PLACE_APPLICATOR_KEYWORDS == <<"anyOf", "oneOf", "allOf">>

PathItem(value, named) == [value |-> value, named |-> named, meta |-> FALSE]
Named(value) == PathItem(value, TRUE)
Unnamed(value) == PathItem(value, FALSE)

META_PATH_ITEM_FILE == [value |-> "file", named |-> TRUE, meta |-> TRUE]
\* a variant of the every marker that is not named
LiteralEveryItem == [value |-> "every", named |-> FALSE, meta |-> TRUE]
META_PATH_ITEM_EVERY == [value |-> "every", named |-> TRUE, meta |-> TRUE]
META_PATH_ITEM_EACH == [value |-> "each", named |-> TRUE, meta |-> TRUE]

\* the applicator keyword taken in the opposite order of priority
LastApplicator(s) ==
    IF s.allOf # NONE THEN "allOf"
    ELSE IF s.oneOf # NONE THEN "oneOf"
    ELSE IF s.anyOf # NONE THEN "anyOf"
    ELSE ""

\* the first applicator keyword the schema has, "" when it has none
FirstApplicator(s) ==
    IF s.anyOf # NONE THEN "anyOf"
    ELSE IF s.oneOf # NONE THEN "oneOf"
    ELSE IF s.allOf # NONE THEN "allOf"
    ELSE ""

\* Object.keys(schema.properties ?? {})
PropertyNames(s) ==
    IF s.properties = NONE THEN <<>>
    ELSE [i \in DOMAIN s.properties.v |-> s.properties.v[i].name]

-----------------------------------------------------------------------------
(* discovery.ts *)

\* a lookup that takes the variable whose name differs at most in letter case
EnvGetAnyCase(e, name) ==
    IF \E i \in DOMAIN e : ToLowerCase(e[i].name) = ToLowerCase(name)
    THEN JStr(e[CHOOSE i \in DOMAIN e :
                  ToLowerCase(e[i].name) = ToLowerCase(name)].value)
    ELSE UNDEFINED

\* env[name], undefined when the variable is not set
EnvGet(e, name) ==
    IF \E i \in DOMAIN e : e[i].name = name
    THEN JStr(e[CHOOSE i \in DOMAIN e : e[i].name = name].value)
    ELSE UNDEFINED

\* [].concat of the sequences in seqs
RECURSIVE Flatten(_)
Flatten(seqs) == IF seqs = <<>> THEN <<>> ELSE seqs[1] \o Flatten(Tail(seqs))

\* the discovered properties, or what the discovery throws
Discovered(props) == [props |-> props, thrown |-> UNDEFINED]
DiscoveryThrows(class) == [props |-> <<>>, thrown |-> Throw(class)]

\* propertyNameSuffixes.find(...): the first declared child's name suffix that
\* occurs in the env var suffix, not at its start, and ends it or is
\* followed by the separator; "" when there is none
\* a variant of the search that accepts a child's name suffix wherever it
\* occurs past the start, whatever follows it
matchedSuffixAnywhere(envVarSuffix, propertyNameSuffixes, o) ==
    LET hits == {i \in DOMAIN propertyNameSuffixes :
                    IndexOf(envVarSuffix, propertyNameSuffixes[i]) > 0}
    IN  IF hits = {} THEN ""
        ELSE propertyNameSuffixes[CHOOSE i \in hits : \A j \in hits : i <= j]

matchedSuffix(envVarSuffix, propertyNameSuffixes, o) ==
    LET Matches(propertySuffix) ==
            LET index == IndexOf(envVarSuffix, propertySuffix)
                endIndex == index + Len(propertySuffix)
            IN  /\ index # -1
                /\ index # 0
                /\ \/ endIndex = Len(envVarSuffix)
                   \/ StartsWith(SubstringFrom(envVarSuffix, endIndex),
                                 IF o.propertySeparator # ""
                                 THEN o.propertySeparator ELSE "_")
        hits == {i \in DOMAIN propertyNameSuffixes :
                    Matches(propertyNameSuffixes[i])}
    IN  IF hits = {} THEN ""
        ELSE propertyNameSuffixes[CHOOSE i \in hits : \A j \in hits : i <= j]

unnamedPropertyName(envVarSuffix, propertyNameSuffixes, o) ==
    LET matched == matchedSuffix(envVarSuffix, propertyNameSuffixes, o)
    IN  IF matched # ""
        THEN Substring(envVarSuffix, 0, IndexOf(envVarSuffix, matched))
        ELSE envVarSuffix

RECURSIVE discoverUnnamedProperties(_, _, _, _)
RECURSIVE discoverInElements(_, _, _, _, _)

\* the loop over the elements of an applicator, from element k on
discoverInElements(schemas, k, candidateEnvVarNameSuffixes, parentPath, o) ==
    LET newly == discoverUnnamedProperties(schemas[k],
                     candidateEnvVarNameSuffixes, parentPath, o)
        later == discoverInElements(schemas, k + 1,
                     candidateEnvVarNameSuffixes, parentPath, o)
    IN  IF k > Len(schemas) THEN Discovered(<<>>)
        ELSE IF IsBoolean(schemas[k]) THEN DiscoveryThrows("UnsupportedSchema")
        ELSE IF newly.thrown # UNDEFINED THEN newly
        ELSE IF later.thrown # UNDEFINED THEN later
        ELSE Discovered(newly.props \o later.props)

discoverUnnamedProperties(propertiesSchema, candidateEnvVarNameSuffixes, parentPath, o) ==
    LET keyword == FirstApplicator(propertiesSchema)
        names == PropertyNames(propertiesSchema)
        propertyNameSuffixes ==
            [i \in DOMAIN names |->
                o.propertySeparator \o transformPropertyName(names[i], o)]
        type == propertiesSchema.type
    IN  IF keyword # ""
        THEN discoverInElements(propertiesSchema[keyword].v, 1,
                                candidateEnvVarNameSuffixes, parentPath, o)
        ELSE IF type = UNDEFINED THEN Discovered(<<>>)
        ELSE IF IsTypeList(type) THEN DiscoveryThrows("UnsupportedSchema")
        ELSE IF type.t \in {"null", "boolean", "string", "integer", "number",
                            "array"}
        THEN Discovered([i \in DOMAIN candidateEnvVarNameSuffixes |->
                [path |-> Append(parentPath,
                                 Unnamed(candidateEnvVarNameSuffixes[i])),
                 schema |-> propertiesSchema]])
        ELSE IF type.t = "object"
        THEN Discovered([i \in DOMAIN candidateEnvVarNameSuffixes |->
                [schema |-> propertiesSchema,
                 path |-> Append(parentPath,
                            Unnamed(unnamedPropertyName(
                                candidateEnvVarNameSuffixes[i],
                                propertyNameSuffixes, o)))]])
        ELSE DiscoveryThrows("UnsupportedSchema")

getEnvVarNamePrefix(parentConfigPropertyPath, o) ==
    IF Len(parentConfigPropertyPath) > 0
    THEN getEnvVarName(parentConfigPropertyPath, o) \o o.propertySeparator
    ELSE ""

getCandidateEnvVarNameSuffixes(e, envVarNamePrefix) ==
    LET Starts(var) == StartsWith(var.name, envVarNamePrefix)
        kept == SelectSeq(e, Starts)
    IN  [i \in DOMAIN kept |->
            SubstringFrom(kept[i].name, Len(envVarNamePrefix))]

getPatternRegex(pattern, propertiesSchema, o) ==
    LET names == PropertyNames(propertiesSchema)
        propertyEnvVarSubstrings ==
            [i \in DOMAIN names |->
                escapeRegExp(o.propertySeparator
                             \o transformPropertyName(names[i], o))]
    IN  IF \/ propertiesSchema.type # [t |-> "object"]
           \/ EndsWith(pattern, "\\$")
           \/ ~EndsWith(pattern, "$")
        THEN pattern
        ELSE IF Len(propertyEnvVarSubstrings) = 0 THEN pattern
        ELSE Substring(pattern, 0, Len(pattern) - 1) \o "("
             \o Join(Append(propertyEnvVarSubstrings, "$"), "|") \o ")"

discoverPatternProperties(pattern, propertiesSchema, parentConfigPropertyPath, e, o) ==
    LET patternRegex == getPatternRegex(pattern, propertiesSchema, o)
        envVarNamePrefix == getEnvVarNamePrefix(parentConfigPropertyPath, o)
        Test(envVarNameSuffix) == RegExpTest(patternRegex, envVarNameSuffix)
    IN  discoverUnnamedProperties(
            propertiesSchema,
            SelectSeq(getCandidateEnvVarNameSuffixes(e, envVarNamePrefix), Test),
            parentConfigPropertyPath, o)

discoverAdditionalProperties(propertiesSchema, parentConfigPropertyPath, e, o) ==
    discoverUnnamedProperties(
        propertiesSchema,
        getCandidateEnvVarNameSuffixes(
            e, getEnvVarNamePrefix(parentConfigPropertyPath, o)),
        parentConfigPropertyPath, o)

-----------------------------------------------------------------------------
(* override.ts: which arrays take part in every/each overrides *)

\* a falsy keyword value: undefined or false
Falsy(x) == x = UNDEFINED \/ x = JBool(FALSE)

\* lodash isEqual on schemas: deep equality that ignores the key order
RECURSIVE isEqual(_, _)
isEqualProperties(a, b) ==
    IF a = NONE \/ b = NONE THEN a = b
    ELSE /\ Len(a.v) = Len(b.v)
         /\ \A i \in DOMAIN a.v : \E j \in DOMAIN b.v :
                /\ a.v[i].name = b.v[j].name
                /\ isEqual(a.v[i].schema, b.v[j].schema)

isEqualList(a, b) ==
    /\ Len(a) = Len(b)
    /\ \A i \in DOMAIN a : isEqual(a[i], b[i])

isEqualSchemas(a, b) ==
    IF a = NONE \/ b = NONE THEN a = b
    ELSE isEqualList(a.v, b.v)

isEqual(a, b) ==
    IF a = NONE \/ b = NONE \/ IsBoolean(a) \/ IsBoolean(b) THEN a = b
    ELSE IF IsMany(a) \/ IsMany(b)
    THEN IsMany(a) /\ IsMany(b) /\ isEqualList(a.many, b.many)
    ELSE /\ a.type = b.type
         /\ isEqualProperties(a.properties, b.properties)
         /\ isEqualProperties(a.patternProperties, b.patternProperties)
         /\ isEqual(a.additionalProperties, b.additionalProperties)
         /\ isEqual(a.items, b.items)
         /\ isEqual(a.additionalItems, b.additionalItems)
         /\ isEqualSchemas(a.anyOf, b.anyOf)
         /\ isEqualSchemas(a.oneOf, b.oneOf)
         /\ isEqualSchemas(a.allOf, b.allOf)

describesObject(s) == ~IsBoolean(s) /\ s.type = [t |-> "object"]

\* a variant that does not compare the items with each other
areItemsAllObjects(items) ==
    IF IsMany(items)
    THEN /\ Len(items.many) # 0
         /\ \A i \in DOMAIN items.many : describesObject(items.many[i])
    ELSE describesObject(items)

areItemsHomogenousObjects(items) ==
    IF IsMany(items)
    THEN /\ Len(items.many) # 0
         /\ describesObject(items.many[1])
         /\ \A i \in 2..Len(items.many) : isEqual(items.many[i], items.many[1])
    ELSE describesObject(items)

isArrayOfHomogenousObjects(arraySchema) ==
    IF Falsy(arraySchema.items) /\ Falsy(arraySchema.additionalItems)
    THEN FALSE
    ELSE IF ~Falsy(arraySchema.items) /\ ~Falsy(arraySchema.additionalItems)
    THEN areItemsHomogenousObjects(
            [many |-> <<arraySchema.additionalItems>>
                      \o (IF IsMany(arraySchema.items)
                          THEN arraySchema.items.many
                          ELSE <<arraySchema.items>>)])
    ELSE IF ~Falsy(arraySchema.items)
            /\ ~areItemsHomogenousObjects(arraySchema.items)
    THEN FALSE
    ELSE IF ~Falsy(arraySchema.additionalItems)
            /\ ~areItemsHomogenousObjects(arraySchema.additionalItems)
    THEN FALSE
    ELSE TRUE

getItemSchema(s) ==
    IF s.additionalItems # UNDEFINED /\ ~IsBoolean(s.additionalItems)
    THEN s.additionalItems
    ELSE IF IsMany(s.items)
    THEN (IF Len(s.items.many) > 0 /\ ~IsBoolean(s.items.many[1])
          THEN s.items.many[1]
          ELSE UNDEFINED)
    ELSE IF s.items # UNDEFINED /\ ~IsBoolean(s.items)
    THEN s.items
    ELSE UNDEFINED

-----------------------------------------------------------------------------
(* walking.ts: the walk, as the sequence of the visitSchema calls it makes  *)
(* (each [kind |-> "visitSchema", schema, path]), ended by                 *)
(* [kind |-> "throw", class] when the walk throws.  The visitor v is        *)
(* [override, env, options]: both visitors answer a pattern or additional  *)
(* property by walking the properties discovered from the environment, and *)
(* the visitor of overrideArrayValues ends its visitSchema by walking the  *)
(* items of an array of homogeneous objects.                               *)

VisitSchemaEvent(s, path) == [kind |-> "visitSchema", schema |-> s, path |-> path]
ThrowEvent(class) == [kind |-> "throw", class |-> class]

Throws(evts) == evts # <<>> /\ evts[Len(evts)].kind = "throw"

\* evts, then the events of later unless evts ended by throwing
Then(evts, later) == IF Throws(evts) THEN evts ELSE evts \o later

RECURSIVE walkConfigProperties(_, _, _)
RECURSIVE walkElements(_, _, _, _)
RECURSIVE walkProperties(_, _, _, _)
RECURSIVE walkPatternProperties(_, _, _, _)
RECURSIVE walkDiscovered(_, _, _)

\* for (const elementSchema of schemas), from element k on
walkElements(schemas, k, path, v) ==
    IF k > Len(schemas) THEN <<>>
    ELSE IF IsBoolean(schemas[k]) THEN <<ThrowEvent("UnsupportedSchema")>>
    ELSE Then(walkConfigProperties(schemas[k], path, v),
              walkElements(schemas, k + 1, path, v))

\* for (const name of Object.keys(schema.properties)), from property k on
walkProperties(props, k, path, v) ==
    IF k > Len(props) THEN <<>>
    ELSE IF IsBoolean(props[k].schema)
    THEN <<ThrowEvent("UnsupportedSchema")>>
    ELSE Then(walkConfigProperties(props[k].schema,
                                   Append(path, Named(props[k].name)), v),
              walkProperties(props, k + 1, path, v))

\* for (const property of discoveredProperties), from property k on
walkDiscovered(discovered, k, v) ==
    IF discovered.thrown # UNDEFINED
    THEN <<ThrowEvent(discovered.thrown.throw)>>
    ELSE IF k > Len(discovered.props) THEN <<>>
    ELSE Then(walkConfigProperties(discovered.props[k].schema,
                                   discovered.props[k].path, v),
              walkDiscovered(discovered, k + 1, v))

visitPatternProperty(pattern, propertiesSchema, parentConfigPropertyPath, v) ==
    walkDiscovered(discoverPatternProperties(pattern, propertiesSchema,
                       parentConfigPropertyPath, v.env, v.options), 1, v)

visitAdditionalProperties(additionalPropertiesSchema, parentConfigPropertyPath, v) ==
    walkDiscovered(discoverAdditionalProperties(additionalPropertiesSchema,
                       parentConfigPropertyPath, v.env, v.options), 1, v)

\* for (const pattern of Object.keys(schema.patternProperties)), from k on
walkPatternProperties(props, k, path, v) ==
    IF k > Len(props) THEN <<>>
    ELSE IF IsBoolean(props[k].schema)
    THEN <<ThrowEvent("UnsupportedSchema")>>
    ELSE Then(visitPatternProperty(props[k].name, props[k].schema, path, v),
              walkPatternProperties(props, k + 1, path, v))

walkObjectArrayProperties(s, configPropertyPath, v) ==
    IF s.type # [t |-> "array"] THEN <<>>
    ELSE IF ~isArrayOfHomogenousObjects(s) THEN <<>>
    ELSE IF getItemSchema(s) = UNDEFINED THEN <<>>
    ELSE Then(walkConfigProperties(getItemSchema(s),
                  Append(configPropertyPath, META_PATH_ITEM_EVERY), v),
              walkConfigProperties(getItemSchema(s),
                  Append(configPropertyPath, META_PATH_ITEM_EACH), v))

\* visitor.visitSchema: the call itself, then the walks it starts
visitSchema(s, configPropertyPath, v) ==
    IF v.override /\ Len(configPropertyPath) # 0
    THEN <<VisitSchemaEvent(s, configPropertyPath)>>
         \o walkObjectArrayProperties(s, configPropertyPath, v)
    ELSE <<VisitSchemaEvent(s, configPropertyPath)>>

\* a walk that visits the node after its declared properties
walkConfigPropertiesNodeLast(s, configPropertyPath, v) ==
    LET keyword == FirstApplicator(s)
    IN  IF keyword # ""
        THEN walkElements(s[keyword].v, 1, configPropertyPath, v)
        ELSE Then(IF s.properties # NONE
                  THEN walkProperties(s.properties.v, 1, configPropertyPath, v)
                  ELSE <<>>,
             Then(visitSchema(s, configPropertyPath, v),
             Then(IF s.patternProperties # NONE
                  THEN walkPatternProperties(s.patternProperties.v, 1,
                                             configPropertyPath, v)
                  ELSE <<>>,
                  IF /\ s.additionalProperties # JBool(TRUE)
                     /\ s.additionalProperties # JBool(FALSE)
                     /\ s.additionalProperties # UNDEFINED
                  THEN visitAdditionalProperties(s.additionalProperties,
                                                 configPropertyPath, v)
                  ELSE <<>>)))

walkConfigProperties(s, configPropertyPath, v) ==
    LET keyword == FirstApplicator(s)
    IN  IF keyword # ""
        THEN walkElements(s[keyword].v, 1, configPropertyPath, v)
        ELSE Then(visitSchema(s, configPropertyPath, v),
             Then(IF s.properties # NONE
                  THEN walkProperties(s.properties.v, 1, configPropertyPath, v)
                  ELSE <<>>,
             Then(IF s.patternProperties # NONE
                  THEN walkPatternProperties(s.patternProperties.v, 1,
                                             configPropertyPath, v)
                  ELSE <<>>,
                  IF /\ s.additionalProperties # JBool(TRUE)
                     /\ s.additionalProperties # JBool(FALSE)
                     /\ s.additionalProperties # UNDEFINED
                  THEN visitAdditionalProperties(s.additionalProperties,
                                                 configPropertyPath, v)
                  ELSE <<>>)))

-----------------------------------------------------------------------------
(* environment.ts *)

\* envVarNames.get(name) !== undefined
LedgerHas(ledger, name) == \E i \in DOMAIN ledger : ledger[i].name = name

\* a ledger that keeps only the name set last
LedgerSetForgetful(ledger, name, path) == <<[name |-> name, path |-> path]>>

\* envVarNames.set(name, path), for a name the ledger may already hold
LedgerSet(ledger, name, path) ==
    IF LedgerHas(ledger, name)
    THEN [i \in DOMAIN ledger |->
            IF ledger[i].name = name THEN [name |-> name, path |-> path]
            ELSE ledger[i]]
    ELSE Append(ledger, [name |-> name, path |-> path])

\* what a read returns, and the ledger after it
Read(value, ledger) == [value |-> value, ledger |-> ledger]

\* content || undefined
NonEmpty(content) == IF content = "" THEN UNDEFINED ELSE JStr(content)

\* the trimmed content of the file at filePath, undefined when no path is
\* given, the file cannot be read, or nothing is left of its content
FileContent(filePath, files) ==
    IF filePath = UNDEFINED \/ filePath = JStr("") THEN UNDEFINED
    ELSE IF filePath.str \notin DOMAIN files THEN UNDEFINED
    ELSE NonEmpty(Trim(files[filePath.str]))

readFromFileVariant(envVarName, e, files) ==
    FileContent(EnvGet(e, envVarName), files)

\* a variant that records the name whatever the parse gave
ParsedAlwaysRecorded(configPropertyPath, ledger, envVarName, value) ==
    IF IsThrow(value) THEN Read(value, ledger)
    ELSE Read(value, LedgerSet(ledger, envVarName, configPropertyPath))

\* the parsed value is returned, and the name recorded if it is defined
Parsed(configPropertyPath, ledger, envVarName, value) ==
    IF value # UNDEFINED /\ ~IsThrow(value)
    THEN Read(value, LedgerSet(ledger, envVarName, configPropertyPath))
    ELSE Read(value, ledger)

\* a read that does not look the name up in the ledger
ReadDirectUnchecked(s, configPropertyPath, ledger, envVarName, envVarValue) ==
    IF envVarValue = UNDEFINED THEN Read(UNDEFINED, ledger)
    ELSE Parsed(configPropertyPath, ledger, envVarName,
                parseEnvVarValue(envVarValue.str, s))

ReadDirect(s, configPropertyPath, ledger, envVarName, envVarValue) ==
    IF LedgerHas(ledger, envVarName) THEN Read(UNDEFINED, ledger)
    ELSE IF envVarValue = UNDEFINED THEN Read(UNDEFINED, ledger)
    ELSE Parsed(configPropertyPath, ledger, envVarName,
                parseEnvVarValue(envVarValue.str, s))

ReadNamed(s, configPropertyPath, e, ledger, envVarName) ==
    ReadDirect(s, configPropertyPath, ledger, envVarName,
               EnvGet(e, envVarName))

readFromEnvVar(s, configPropertyPath, e, ledger, o) ==
    ReadNamed(s, configPropertyPath, e, ledger,
              getEnvVarName(configPropertyPath, o))

ReadRaw(s, configPropertyPath, ledger, envVarName, rawValue) ==
    IF rawValue = UNDEFINED THEN Read(UNDEFINED, ledger)
    ELSE Parsed(configPropertyPath, ledger, envVarName,
                parseEnvVarValue(rawValue.str, s))

ReadFile(s, configPropertyPath, e, files, ledger, envVarName) ==
    IF LedgerHas(ledger, envVarName) THEN Read(UNDEFINED, ledger)
    ELSE IF EnvGet(e, envVarName) = UNDEFINED THEN Read(UNDEFINED, ledger)
    ELSE ReadRaw(s, configPropertyPath, ledger, envVarName,
                 readFromFileVariant(envVarName, e, files))

readFromFileEnvVar(s, configPropertyPath, e, files, ledger, o) ==
    ReadFile(s, configPropertyPath, e, files, ledger,
             getEnvVarName(Append(configPropertyPath, Unnamed("FILE")), o))

OrFromFile(s, configPropertyPath, e, files, o, direct) ==
    IF direct.value = UNDEFINED
    THEN readFromFileEnvVar(s, configPropertyPath, e, files, direct.ledger, o)
    ELSE direct

\* the direct variable, then the file variant
readFromEnvVars(s, configPropertyPath, e, files, ledger, o) ==
    OrFromFile(s, configPropertyPath, e, files, o,
               readFromEnvVar(s, configPropertyPath, e, ledger, o))

\* the keys of a path: the values of its items
Keys(path) == [i \in DOMAIN path |-> path[i].value]

RECURSIVE createParentObjects(_, _)

ParentCreated(configPropertyPath, rootObject, below) ==
    IF IsThrow(below) THEN below
    ELSE Put(rootObject, configPropertyPath[1].value, below)

ParentObject(configPropertyPath, rootObject, propertyValue) ==
    IF ~IsObj(propertyValue) THEN Throw("Error")
    ELSE ParentCreated(configPropertyPath, rootObject,
            createParentObjects(Tail(configPropertyPath), propertyValue))

\* rootObject with an empty object at every missing ancestor of the path,
\* or the Error thrown at an ancestor that is not a plain object
createParentObjects(configPropertyPath, rootObject) ==
    IF Len(configPropertyPath) <= 1 THEN rootObject
    ELSE ParentObject(configPropertyPath, rootObject,
            IF Get(rootObject, configPropertyPath[1].value) = UNDEFINED
            THEN EmptyObj
            ELSE Get(rootObject, configPropertyPath[1].value))

\* rootObject with value at the keys, all of whose ancestors are objects
RECURSIVE AssignAt(_, _, _)
AssignAt(rootObject, keys, value) ==
    IF Len(keys) = 1 THEN Put(rootObject, keys[1], value)
    ELSE Put(rootObject, keys[1],
             AssignAt(Get(rootObject, keys[1]), Tail(keys), value))

\* what a visitSchema call leaves: the object, the ledger, what it threw
Visited(object, ledger, thrown) ==
    [result |-> object, ledger |-> ledger, thrown |-> thrown]

LoadAssign(configPropertyPath, envConfig, read, configObject) ==
    IF IsThrow(configObject) THEN Visited(envConfig, read.ledger, configObject)
    ELSE Visited(AssignAt(configObject, Keys(configPropertyPath), read.value),
                 read.ledger, UNDEFINED)

\* a visit that does not return when nothing was read
LoadReadNoReturn(configPropertyPath, envConfig, read) ==
    IF IsThrow(read.value) THEN Visited(envConfig, read.ledger, read.value)
    ELSE LoadAssign(configPropertyPath, envConfig, read,
                    createParentObjects(configPropertyPath, envConfig))

LoadRead(configPropertyPath, envConfig, read) ==
    IF IsThrow(read.value) THEN Visited(envConfig, read.ledger, read.value)
    ELSE IF read.value = UNDEFINED
    THEN Visited(envConfig, read.ledger, UNDEFINED)
    ELSE LoadAssign(configPropertyPath, envConfig, read,
                    createParentObjects(configPropertyPath, envConfig))

\* loadFromEnv's visitor.visitSchema
loadVisitSchema(s, configPropertyPath, e, files, envConfig, ledger, o) ==
    IF Len(configPropertyPath) = 0 THEN Visited(envConfig, ledger, UNDEFINED)
    ELSE LoadRead(configPropertyPath, envConfig,
                  readFromEnvVars(s, configPropertyPath, e, files, ledger, o))

\* if (!options.case) ...; if (!options.propertySeparator) ...
loadOptions(o) ==
    [o EXCEPT !.case = IF o.case = "" THEN ScreamingStyle ELSE o.case,
              !.propertySeparator =
                  IF o.propertySeparator = "" THEN "_" ELSE o.propertySeparator]

-----------------------------------------------------------------------------
(* common.ts *)

DEFAULT_OPTIONS ==
    [case |-> SnakeCaseStyle, propertySeparator |-> "__", prefix |-> ""]

initialiseOptions(o) ==
    [o EXCEPT !.case = IF o.case = "" THEN SnakeCaseStyle ELSE o.case,
              !.propertySeparator =
                  IF o.propertySeparator = "" THEN "__" ELSE o.propertySeparator]

-----------------------------------------------------------------------------
(* lodash defaultsDeep: each source's properties are assigned, recursively, *)
(* where the destination has none.                                         *)

RECURSIVE NatToString(_)
NatToString(n) ==
    IF n < 10 THEN DigitChars[n + 1]
    ELSE NatToString(n \div 10) \o DigitChars[(n % 10) + 1]

IsObjectLike(v) == IsObj(v) \/ IsArr(v)

At(array, i) == IF i \in DOMAIN array.arr THEN array.arr[i] ELSE UNDEFINED

Max(a, b) == IF a >= b THEN a ELSE b
Min(a, b) == IF a <= b THEN a ELSE b

RECURSIVE customDefaultsMerge(_, _)
RECURSIVE baseMerge(_, _)

\* the value a key ends with, from the destination's and the source's
customDefaultsMerge(objValue, srcValue) ==
    IF srcValue = UNDEFINED THEN objValue
    ELSE IF objValue = UNDEFINED THEN srcValue
    ELSE IF IsObjectLike(objValue) /\ IsObjectLike(srcValue)
    THEN baseMerge(objValue, srcValue)
    ELSE objValue

\* object after source is merged into it; both are objects or arrays.
\* The named properties a merge gives an array are not part of its JSON value.
baseMerge(object, source) ==
    IF IsObj(object) /\ IsObj(source)
    THEN JObj([k \in (DOMAIN object.obj) \cup (DOMAIN source.obj) |->
                customDefaultsMerge(Get(object, k), Get(source, k))])
    ELSE IF IsArr(object) /\ IsArr(source)
    THEN JArr([i \in 1..Max(Len(object.arr), Len(source.arr)) |->
                customDefaultsMerge(At(object, i), At(source, i))])
    ELSE IF IsObj(object)
    THEN JObj([k \in (DOMAIN object.obj)
                     \cup {NatToString(i - 1) : i \in DOMAIN source.arr} |->
                IF \E i \in DOMAIN source.arr : NatToString(i - 1) = k
                THEN customDefaultsMerge(Get(object, k),
                        source.arr[CHOOSE i \in DOMAIN source.arr :
                                      NatToString(i - 1) = k])
                ELSE Get(object, k)])
    ELSE object

RECURSIVE defaultsDeep(_, _)
defaultsDeep(object, sources) ==
    IF sources = <<>> THEN object
    ELSE defaultsDeep(IF IsObjectLike(sources[1])
                      THEN baseMerge(object, sources[1])
                      ELSE object,
                      Tail(sources))

cloneDeep(value) == value

\* a variant for a copy made as Object.assign makes it: the object and array
\* values of the source are in the copy themselves
assignShared(object, sources) ==
    {key \in DOMAIN sources[1].obj : IsObjectLike(sources[1].obj[key])}

\* the top-level properties of defaultsDeep's result whose values are the
\* very objects of a source: none, since where the destination has no value
\* an object or array of a source is merged into a new object or array
defaultsDeepShared(object, sources) == {}

-----------------------------------------------------------------------------
(* override.ts: applying an override *)

OverrideElement(configPropertyPath, below, value) ==
    IF below = <<>>
    THEN Put(EmptyObj, configPropertyPath[Len(configPropertyPath)].value,
             cloneDeep(value))
    ELSE AssignAt(createParentObjects(below, EmptyObj), Keys(below),
                  cloneDeep(value))

\* the object that holds only the value, at the path items after the marker
createOverrideElement(configPropertyPath, metaPathItemIndex, value) ==
    OverrideElement(configPropertyPath,
                    SubSeq(configPropertyPath, metaPathItemIndex + 2,
                           Len(configPropertyPath)),
                    value)

mergeIntoArrayElement(configPropertyPath, metaPathItemIndex, element, overrideValue) ==
    defaultsDeep(EmptyObj,
                 <<createOverrideElement(configPropertyPath, metaPathItemIndex,
                                         overrideValue),
                   element>>)

\* the array at the path, undefined when the path holds no array, or the
\* Error thrown where the path leaves the objects
RECURSIVE getArrayToOverride(_, _)
getArrayToOverride(configObject, configPropertyPath) ==
    IF configPropertyPath = <<>>
    THEN (IF IsArr(configObject) THEN configObject ELSE UNDEFINED)
    ELSE IF configObject = UNDEFINED \/ ~IsObj(configObject)
    THEN Throw("Error")
    ELSE getArrayToOverride(Get(configObject, configPropertyPath[1].value),
                            Tail(configPropertyPath))

EveryElement(cfg, configPropertyPath, value, everyIndex, configArray) ==
    IF IsThrow(configArray) THEN configArray
    ELSE IF configArray = UNDEFINED THEN cfg
    ELSE AssignAt(cfg, Keys(SubSeq(configPropertyPath, 1, everyIndex)),
            JArr([index \in DOMAIN configArray.arr |->
                    mergeIntoArrayElement(configPropertyPath, everyIndex,
                        configArray.arr[index], value)]))

applyToEveryElement(cfg, configPropertyPath, value, everyIndex) ==
    EveryElement(cfg, configPropertyPath, value, everyIndex,
        getArrayToOverride(cfg, SubSeq(configPropertyPath, 1, everyIndex)))

\* a variant that first extends the array to the length of the value
EachElementExtending(cfg, configPropertyPath, value, eachIndex, configArray) ==
    IF IsThrow(configArray) THEN configArray
    ELSE IF configArray = UNDEFINED THEN cfg
    ELSE IF ~IsArr(value) THEN cfg
    ELSE AssignAt(cfg, Keys(SubSeq(configPropertyPath, 1, eachIndex)),
            JArr([i \in 1..Max(Len(configArray.arr), Len(value.arr)) |->
                    IF i <= Len(value.arr)
                    THEN mergeIntoArrayElement(configPropertyPath, eachIndex,
                             IF i <= Len(configArray.arr)
                             THEN configArray.arr[i] ELSE EmptyObj,
                             value.arr[i])
                    ELSE configArray.arr[i]]))

EachElement(cfg, configPropertyPath, value, eachIndex, configArray) ==
    IF IsThrow(configArray) THEN configArray
    ELSE IF configArray = UNDEFINED THEN cfg
    ELSE IF ~IsArr(value) THEN cfg
    ELSE AssignAt(cfg, Keys(SubSeq(configPropertyPath, 1, eachIndex)),
            JArr([i \in DOMAIN configArray.arr |->
                    IF i <= Len(value.arr)
                    THEN mergeIntoArrayElement(configPropertyPath, eachIndex,
                             configArray.arr[i], value.arr[i])
                    ELSE configArray.arr[i]]))

applyToEachElement(cfg, configPropertyPath, value, eachIndex) ==
    EachElement(cfg, configPropertyPath, value, eachIndex,
        getArrayToOverride(cfg, SubSeq(configPropertyPath, 1, eachIndex)))

\* a variant that gives the index of the first item equal to the needle
findFirstIndex(array, needle) ==
    IF \E i \in DOMAIN array : array[i] = needle
    THEN (CHOOSE i \in DOMAIN array :
            array[i] = needle /\ \A j \in 1..(i - 1) : array[j] # needle) - 1
    ELSE -1

\* the 0-based index of the only item equal to the needle, else -1
findOnlyIndex(array, needle) ==
    IF Cardinality({i \in DOMAIN array : array[i] = needle}) = 1
    THEN (CHOOSE i \in DOMAIN array : array[i] = needle) - 1
    ELSE -1

OverrideApplied(cfg, read, applied) ==
    IF IsThrow(applied) THEN Visited(cfg, read.ledger, applied)
    ELSE Visited(applied, read.ledger, UNDEFINED)

OverrideRead(configPropertyPath, cfg, everyIndex, eachIndex, read) ==
    IF IsThrow(read.value) THEN Visited(cfg, read.ledger, read.value)
    ELSE IF read.value = UNDEFINED THEN Visited(cfg, read.ledger, UNDEFINED)
    ELSE OverrideApplied(cfg, read,
            IF everyIndex # -1
            THEN applyToEveryElement(cfg, configPropertyPath, read.value,
                                     everyIndex)
            ELSE applyToEachElement(cfg, configPropertyPath, read.value,
                                    eachIndex))

\* a variant that sets the value of a path without marker, as loadFromEnv does
OverrideMarkedOrPlain(s, configPropertyPath, e, files, cfg, ledger, o, everyIndex, eachIndex) ==
    IF everyIndex = -1 /\ eachIndex = -1
    THEN loadVisitSchema(s, configPropertyPath, e, files, cfg, ledger, o)
    ELSE IF everyIndex # -1 /\ eachIndex # -1
    THEN Visited(cfg, ledger, UNDEFINED)
    ELSE OverrideRead(configPropertyPath, cfg, everyIndex, eachIndex,
            readFromEnvVars(IF everyIndex # -1 THEN s ELSE ArrayOf(s),
                            configPropertyPath, e, files, ledger, o))

\* an every path is read with the schema, an each path with an array of it
OverrideMarked(s, configPropertyPath, e, files, cfg, ledger, o, everyIndex, eachIndex) ==
    IF (everyIndex # -1) = (eachIndex # -1)
    THEN Visited(cfg, ledger, UNDEFINED)
    ELSE OverrideRead(configPropertyPath, cfg, everyIndex, eachIndex,
            readFromEnvVars(IF everyIndex # -1 THEN s ELSE ArrayOf(s),
                            configPropertyPath, e, files, ledger, o))

\* overrideArrayValues' visitor.visitSchema, up to the walk it ends with
overrideVisitSchema(s, configPropertyPath, e, files, cfg, ledger, o) ==
    IF Len(configPropertyPath) = 0 THEN Visited(cfg, ledger, UNDEFINED)
    ELSE OverrideMarked(s, configPropertyPath, e, files, cfg, ledger, o,
            findOnlyIndex(configPropertyPath, META_PATH_ITEM_EVERY),
            findOnlyIndex(configPropertyPath, META_PATH_ITEM_EACH))

-----------------------------------------------------------------------------
(* Inputs *)

MaxPathLen == 2   \* path items in a getEnvVarName call
MaxTypes == 3     \* members of a type list in a parseEnvVarValue call
MaxEnvVars == 2   \* variables set in an environment

Options(case, propertySeparator, prefix) ==
    [case |-> case, propertySeparator |-> propertySeparator,
     prefix |-> prefix]

\* an options object that leaves case and propertySeparator out
NoOptions == Options("", "", "")

Var(name, values) == [name |-> name, values |-> values]

\* the environments that set at most n of the variables from the k-th on
RECURSIVE EnvsFrom(_, _, _)
EnvsFrom(variables, k, n) ==
    IF k > Len(variables) \/ n = 0 THEN {<<>>}
    ELSE EnvsFrom(variables, k + 1, n)
         \cup {<<[name |-> variables[k].name, value |-> value]>> \o rest :
                 value \in variables[k].values,
                 rest \in EnvsFrom(variables, k + 1, n - 1)}

Envs(variables) == EnvsFrom(variables, 1, MaxEnvVars)

AnyOf(schemas) == [EmptySchema EXCEPT !.anyOf = [v |-> schemas]]
OneOf(schemas) == [EmptySchema EXCEPT !.oneOf = [v |-> schemas]]
AllOf(schemas) == [EmptySchema EXCEPT !.allOf = [v |-> schemas]]

FileSystems ==
    {[path \in {"/f"} |-> " hello "], [path \in {"/f"} |-> "7"],
     [path \in {"/f"} |-> "  "]}

FilePaths == {"/f", "/missing"}

PathItems ==
    {Named("camelCased"), Unnamed("camelCased"), Named("prop1"),
     Unnamed("FILE"), META_PATH_ITEM_EVERY}

Paths == UNION {[1..n -> PathItems] : n \in 0..MaxPathLen}

NamingOptions ==
    {Options(case, propertySeparator, prefix) :
        case \in {SnakeCaseStyle, ScreamingStyle},
        propertySeparator \in {"_", "__"},
        prefix \in {"", "app"}}

NameArgs == [path : Paths, options : NamingOptions]

TypeNames == {"integer", "number", "string", "boolean", "null", "bogus"}

TypeLists == UNION {[1..n -> TypeNames] : n \in 1..MaxTypes}

ParseValues == {"1", "3.14", "x", "true", "null", ""}

\* array schemas to parse under: items absent, one schema, a boolean or a
\* list, with and without additionalItems
ParseItems ==
    {NONE, Type("integer"), Type("string"), JBool(TRUE),
     [many |-> <<Type("integer")>>],
     [many |-> <<Type("integer"), Type("string")>>],
     [many |-> <<JBool(TRUE), Type("integer")>>]}

ArrayParseSchemas ==
    {[Type("array") EXCEPT !.items = items, !.additionalItems = additionalItems] :
        items \in ParseItems,
        additionalItems \in {NONE, Type("integer"), JBool(TRUE)}}

ArrayValues ==
    {"1", "1,2", "1,x", "1,2,3", "[1,2]", "[\"a\"]", "[1", "{\"a\":1}", ""}

BooleanValues ==
    {"true", "false", "TRUE", "True", "FALSE", "1", "0", "yes", "", " true"}

\* texts that are not what a type asks for, broken JSON among them
MalformedValues ==
    {"{", "{\"a\":", "[1,", "1e", "nan", "--1", "\"", "{\"a\":1}", "[]", "1,{"}

\* schemas of each supported type, of no type and of an unknown type, alone,
\* in a type list and as the items of an array
MalformedSchemas ==
    {Type(t) : t \in {"null", "boolean", "object", "integer", "number",
                      "string", "bogus"}}
    \cup {EmptySchema, ArrayOf(Type("object")), ArrayOf(Type("bogus")),
          ArrayOf(EmptySchema), TypeList(<<"object", "array", "bogus">>),
          TypeList(<<"array", "string", "bogus">>)}

ParseArgs ==
    [value : ParseValues, schema : {TypeList(ts) : ts \in TypeLists}]
    \cup [value : MalformedValues, schema : MalformedSchemas]
    \cup [value : ArrayValues, schema : ArrayParseSchemas]
    \cup [value : BooleanValues, schema : {Type("boolean")}]

\* the item schemas an array schema is given: two object schemas that differ,
\* a string schema, the booleans, and lists of them
ItemA == ObjectOf(<<Prop("p", Type("number"))>>)
ItemB == ObjectOf(<<Prop("q", Type("string"))>>)

ItemSchemas == {ItemA, ItemB, Type("string"), JBool(TRUE), JBool(FALSE)}

ItemLists ==
    {[many |-> <<>>], [many |-> <<ItemA>>], [many |-> <<ItemA, ItemA>>],
     [many |-> <<ItemA, ItemB>>], [many |-> <<Type("string")>>],
     [many |-> <<ItemA, JBool(TRUE)>>], [many |-> <<JBool(TRUE), ItemA>>]}

ArraySchemas ==
    {[Type("array") EXCEPT !.items = items, !.additionalItems = additionalItems] :
        items \in {NONE} \cup ItemSchemas \cup ItemLists,
        additionalItems \in {NONE} \cup ItemSchemas}

\* schemas to discover unnamed properties under: each single type, no type,
\* objects with and without declared children, an applicator and a type list
DiscoverSchemas ==
    {Type(t) : t \in {"null", "boolean", "string", "integer", "number",
                      "array", "object"}}
    \cup {EmptySchema,
          ObjectOf(<<>>),
          ObjectOf(<<Prop("p", Type("string"))>>),
          ObjectOf(<<Prop("fooBar", Type("string")), Prop("p", Type("number"))>>),
          AnyOf(<<Type("string"), ObjectOf(<<Prop("p", Type("string"))>>)>>),
          TypeList(<<"string", "null">>)}

\* candidate suffixes: plain names, names that continue into a child (p,
\* fooBar) under either separator, names that merely contain a child's name
\* suffix, and one that starts with it
CandidateSuffixes ==
    {"foo", "Foo__P", "foo__p", "__p", "foo__pp", "foo__p__x", "foo__pp__p",
     "FOO_P", "FOO_P_X", "a__foo_bar"}

CandidateLists == UNION {[1..n -> CandidateSuffixes] : n \in 0..2}

DiscoverArgs ==
    [schema : DiscoverSchemas, suffixes : CandidateLists,
     path : {<<Named("obj")>>},
     options : {DEFAULT_OPTIONS, Options(ScreamingStyle, "_", "")}]

\* schema nodes to walk: every combination of the three applicators, with
\* and without the node's own properties, patternProperties and
\* additionalProperties
NodeOwn ==
    {EmptySchema,
     [Type("object") EXCEPT
        !.properties = [v |-> <<Prop("own", Type("string")),
                                Prop("second", Type("integer"))>>],
        !.patternProperties = [v |-> <<Prop("^x", Type("number")),
                                       Prop("^y", Type("boolean"))>>],
        !.additionalProperties = Type("string")]}

NodeSchemas ==
    {[own EXCEPT !.anyOf = anyOf, !.oneOf = oneOf, !.allOf = allOf] :
        own \in NodeOwn,
        anyOf \in {NONE, [v |-> <<Type("string"),
                                  ObjectOf(<<Prop("p", Type("integer"))>>)>>]},
        oneOf \in {NONE, [v |-> <<Type("number")>>]},
        allOf \in {NONE, [v |-> <<Type("boolean"),
                                  AnyOf(<<Type("null")>>)>>]}}

NodeEnvs ==
    {<<>>,
     <<[name |-> "n__x1", value |-> "1"]>>,
     <<[name |-> "n__y1", value |-> "true"], [name |-> "n__x1", value |-> "1"],
       [name |-> "n__z", value |-> "v"]>>}

NodeArgs ==
    [schema : NodeSchemas, path : {<<Named("n")>>}, env : NodeEnvs]

\* discoveries of additional properties at the root and below an object,
\* with and without a configured prefix
AdditionalEnvs ==
    {<<[name |-> "obj__foo", value |-> "x"]>>,
     <<[name |-> "obj__foo", value |-> "x"],
       [name |-> "obj__bar__p", value |-> "y"]>>,
     <<[name |-> "app__foo", value |-> "x"]>>,
     <<[name |-> "app__obj__foo__p", value |-> "x"],
       [name |-> "foo", value |-> "y"]>>}

AdditionalArgs ==
    [schema : {Type("string"), ObjectOf(<<Prop("p", Type("string"))>>)},
     path : {<<>>, <<Named("obj")>>},
     env : AdditionalEnvs,
     options : {DEFAULT_OPTIONS, Options(SnakeCaseStyle, "__", "app")}]

WalkArgs == [schema : ArraySchemas, path : {<<Named("array")>>}]

LoadCases ==
    {[schema |-> ObjectOf(<<Prop("a", ObjectOf(<<Prop("b", Type("integer"))>>)),
                            Prop("aB", Type("string"))>>),
      variables |-> <<Var("A_B", {"1", "x"}), Var("A_B_FILE", FilePaths),
                      Var("A", {"{\"b\":\"x\"}", "x"})>>],
     [schema |-> ObjectOf(<<Prop("n", Type("number")),
                            Prop("s", Type("string"))>>),
      variables |-> <<Var("N", {"3.14", "x"}), Var("N_FILE", FilePaths),
                      Var("S_FILE", FilePaths)>>],
     [schema |-> ObjectOf(<<Prop("n", AnyOf(<<Type("number"),
                                              Type("string")>>))>>),
      variables |-> <<Var("N", {"3.14", "x"}), Var("N_FILE", FilePaths)>>],
     [schema |-> ObjectOf(<<Prop("n", OneOf(<<Type("integer"), Type("number"),
                                              Type("string")>>))>>),
      variables |-> <<Var("N", {"3.14", "1", "x"}), Var("N_FILE", FilePaths)>>],
     [schema |-> ObjectOf(<<Prop("n", AllOf(<<Type("integer"),
                                              Type("boolean")>>))>>),
      variables |-> <<Var("N", {"1", "true", "x"}), Var("N_FILE", FilePaths)>>],
     [schema |-> [ObjectOf(<<>>) EXCEPT !.patternProperties =
                     [v |-> <<Prop("^n", Type("number")),
                              Prop("n$", Type("string"))>>]],
      variables |-> <<Var("N", {"3.14", "x"}), Var("N_FILE", FilePaths)>>],
     [schema |-> ObjectOf(<<Prop("i", Type("integer")),
                            Prop("n", AnyOf(<<Type("integer"), JBool(TRUE)>>))>>),
      variables |-> <<Var("I", {"1", "3.14"}), Var("N", {"1"})>>],
     [schema |-> ObjectOf(<<
          Prop("obj", [ObjectOf(<<>>) EXCEPT !.patternProperties =
                          [v |-> <<Prop("^N", Type("number"))>>]]),
          Prop("ad", [ObjectOf(<<>>) EXCEPT !.additionalProperties =
                          Type("string")]),
          Prop("s", Type("string"))>>),
      variables |-> <<Var("OBJ_N", {"1"}), Var("AD_K", {"v"}), Var("S", {"x"}),
                      Var("NO", {"2"}), Var("KEY", {"w"}),
                      Var("OBJX_N", {"3"}), Var("S_file", {"/f"})>>],
     [schema |-> ObjectOf(<<
          Prop("o", [ObjectOf(<<Prop("b", Type("integer")),
                                Prop("c", Type("string"))>>)
                        EXCEPT !.patternProperties =
                                   [v |-> <<Prop("^X", Type("number"))>>],
                               !.additionalProperties = Type("boolean")]),
          Prop("z", Type("string")), Prop("w", Type("string"))>>),
      variables |-> <<Var("O", {"{\"b\":5,\"k\":2}", "x"}),
                      Var("O_B", {"1", "x", "true"}), Var("O_C", {"s"}),
                      Var("O_X1", {"3"}), Var("O_T", {"true"})>>],
     [schema |-> ObjectOf(<<
          Prop("a", AnyOf(<<Type("string"),
                            ObjectOf(<<Prop("b", Type("integer"))>>)>>)),
          Prop("d", ObjectOf(<<
              Prop("e", ObjectOf(<<Prop("f", Type("integer"))>>))>>))>>),
      variables |-> <<Var("A", {"hello", "{\"b\":2}"}), Var("A_B", {"1"}),
                      Var("D", {"{\"e\":\"text\"}", "{\"e\":{}}"}),
                      Var("D_E_F", {"1"})>>]}

LoadOptions == {NoOptions, Options(ScreamingStyle, "_", "")}

OverrideItem ==
    ObjectOf(<<Prop("p", Type("number")),
               Prop("o", ObjectOf(<<Prop("a", Type("number"))>>))>>)

\* the items of an array that hold an array of objects themselves
NestedItem ==
    ObjectOf(<<Prop("p", Type("number")),
               Prop("inner", ArrayOf(ObjectOf(<<Prop("x", Type("number"))>>)))>>)

OverrideCases ==
    {[schema |-> ObjectOf(<<Prop("array", ArrayOf(OverrideItem))>>),
      variables |-> <<Var("array__every__p", {"1", "x"}),
                      Var("array__each__p", {"2", "2,3", "2,3,4"}),
                      Var("array__every__o", {"{\"a\":1}"}),
                      Var("array__every__o__a", {"7"}),
                      Var("array__each__o", {"[{\"a\":1}]"})>>],
     [schema |-> ObjectOf(<<Prop("array", ArrayOf(ObjectOf(
                     <<Prop("p", AnyOf(<<Type("number"), JBool(TRUE)>>))>>)))>>),
      variables |-> <<Var("array__every__p", {"1"})>>],
     [schema |-> ObjectOf(<<Prop("array", ArrayOf(NestedItem)),
                            Prop("s", Type("string"))>>),
      variables |-> <<Var("s", {"new"}),
                      Var("array", {"[{\"p\":9}]"}),
                      Var("array__every__inner__every__x", {"9"}),
                      Var("array__every__inner__each__x", {"9"}),
                      Var("array__each__inner__every__x", {"9"}),
                      Var("array__each__inner__each__x", {"9"}),
                      Var("array__every__p", {"1"})>>],
     [schema |-> ObjectOf(<<Prop("array", ArrayOf(ItemA))>>),
      variables |-> <<Var("ARRAY_EVERY_P", {"1"}),
                      Var("ARRAY_every_P", {"3"}),
                      Var("ARRAY_EACH_P", {"2"}),
                      Var("app__array__every__p", {"1"}),
                      Var("array__every", {"{\"p\":5}"}),
                      Var("array__each", {"[{\"p\":6}]"})>>]}

Configs ==
    {JObj([array |-> JArr(<<JObj([p |-> JInt(0), o |-> JObj([b |-> JInt(2)])]),
                            JObj([p |-> JInt(5)])>>)]),
     JObj([array |-> JArr(<<JObj([p |-> JInt(0)])>>)]),
     JObj([array |-> JArr(<<JObj([p |-> JInt(0),
                                  inner |-> JArr(<<JObj([x |-> JInt(1)])>>)])>>),
           s |-> JStr("old")]),
     EmptyObj}

\* an array of objects below an object, with configs that lack the object,
\* lack the array, and hold both
ArrayBelowObject ==
    [schema |-> ObjectOf(<<Prop("a", ObjectOf(<<Prop("array", ArrayOf(ItemA))>>)),
                           Prop("s", Type("string"))>>),
     variables |-> <<Var("a__array__every__p", {"1"}),
                     Var("a__array__each__p", {"2"}),
                     Var("s", {"new"})>>,
     configs |-> {EmptyObj,
                  JObj([s |-> JStr("old")]),
                  JObj([a |-> EmptyObj]),
                  JObj([a |-> JObj([array |-> JArr(<<JObj([p |-> JInt(0)])>>)])])}]

OverrideOptions ==
    {DEFAULT_OPTIONS, Options(ScreamingStyle, "_", ""),
     Options(SnakeCaseStyle, "__", "app")}
    \cup {[case |-> "", propertySeparator |-> "", prefix |-> "",
            truncateTargetArrays |-> truncate, extendTargetArrays |-> extend] :
             truncate \in BOOLEAN, extend \in BOOLEAN}

-----------------------------------------------------------------------------
(* The calls *)

Idle ==
    /\ ret = UNDEFINED
    /\ opts = UNDEFINED
    /\ result = UNDEFINED
    /\ envVarNames = <<>>
    /\ events = <<>>
    /\ pc = 0
    /\ status = "ready"
    /\ shared = {}

InitPure ==
    /\ \/ op = "getEnvVarName" /\ args \in NameArgs
       \/ op = "parseEnvVarValue" /\ args \in ParseArgs
       \/ op = "walkObjectArrayProperties" /\ args \in WalkArgs
       \/ op = "discoverUnnamedProperties" /\ args \in DiscoverArgs
       \/ op = "walkConfigProperties" /\ args \in NodeArgs
       \/ op = "discoverAdditionalProperties" /\ args \in AdditionalArgs
    /\ env = <<>> /\ fs = <<>> /\ schema = UNDEFINED
    /\ options = UNDEFINED /\ config = UNDEFINED
    /\ Idle

InitLoad ==
    /\ op = "loadFromEnv"
    /\ args = <<>>
    /\ \E case \in LoadCases :
          schema = case.schema /\ env \in Envs(case.variables)
    /\ fs \in FileSystems
    /\ options \in LoadOptions
    /\ config = UNDEFINED
    /\ Idle

InitOverride ==
    /\ op = "overrideArrayValues"
    /\ args = <<>>
    /\ \/ /\ \E case \in OverrideCases :
                schema = case.schema /\ env \in Envs(case.variables)
          /\ config \in Configs
       \/ /\ schema = ArrayBelowObject.schema
          /\ env \in Envs(ArrayBelowObject.variables)
          /\ config \in ArrayBelowObject.configs
    /\ fs \in FileSystems
    /\ options \in OverrideOptions
    /\ Idle

CallGetEnvVarName ==
    /\ status = "ready" /\ op = "getEnvVarName"
    /\ ret' = JStr(getEnvVarName(args.path, args.options))
    /\ status' = "returned"
    /\ UNCHANGED <<op, args, env, fs, schema, options, opts, config, result,
                   envVarNames, events, pc, shared>>

\* what a discovery gives its caller: the properties, or what it throws
DiscoveryOutcome(discovery) ==
    IF discovery.thrown # UNDEFINED THEN discovery.thrown
    ELSE [discovered |-> discovery.props]

CallDiscoverUnnamedProperties ==
    /\ status = "ready" /\ op = "discoverUnnamedProperties"
    /\ ret' = DiscoveryOutcome(discoverUnnamedProperties(
                   args.schema, args.suffixes, args.path, args.options))
    /\ status' = IF IsThrow(ret') THEN "thrown" ELSE "returned"
    /\ UNCHANGED <<op, args, env, fs, schema, options, opts, config, result,
                   envVarNames, events, pc, shared>>

CallDiscoverAdditionalProperties ==
    /\ status = "ready" /\ op = "discoverAdditionalProperties"
    /\ ret' = DiscoveryOutcome(discoverAdditionalProperties(
                   args.schema, args.path, args.env, args.options))
    /\ status' = IF IsThrow(ret') THEN "thrown" ELSE "returned"
    /\ UNCHANGED <<op, args, env, fs, schema, options, opts, config, result,
                   envVarNames, events, pc, shared>>

CallParseEnvVarValue ==
    /\ status = "ready" /\ op = "parseEnvVarValue"
    /\ ret' = parseEnvVarValue(args.value, args.schema)
    /\ status' = IF IsThrow(ret') THEN "thrown" ELSE "returned"
    /\ UNCHANGED <<op, args, env, fs, schema, options, opts, config, result,
                   envVarNames, events, pc, shared>>

\* a call of walkObjectArrayProperties with the visitor of overrideArrayValues
\* a walk with a visitor that only records the calls made to it
CallWalkConfigProperties ==
    /\ status = "ready" /\ op = "walkConfigProperties"
    /\ events' = walkConfigProperties(args.schema, args.path,
                     [override |-> FALSE, env |-> args.env,
                      options |-> DEFAULT_OPTIONS])
    /\ ret' = IF Throws(events')
              THEN Throw(events'[Len(events')].class) ELSE UNDEFINED
    /\ status' = IF Throws(events') THEN "thrown" ELSE "returned"
    /\ UNCHANGED <<op, args, env, fs, schema, options, opts, config, result,
                   envVarNames, pc, shared>>

CallWalkObjectArrayProperties ==
    /\ status = "ready" /\ op = "walkObjectArrayProperties"
    /\ events' = walkObjectArrayProperties(args.schema, args.path,
                     [override |-> TRUE, env |-> env,
                      options |-> DEFAULT_OPTIONS])
    /\ ret' = IF Throws(events')
              THEN Throw(events'[Len(events')].class) ELSE UNDEFINED
    /\ status' = IF Throws(events') THEN "thrown" ELSE "returned"
    /\ UNCHANGED <<op, args, env, fs, schema, options, opts, config, result,
                   envVarNames, pc, shared>>

\* loadFromEnv up to the walk: the caller's options object is defaulted in place
LoadStart ==
    /\ status = "ready" /\ op = "loadFromEnv"
    /\ options' = loadOptions(options)
    /\ opts' = options'
    /\ result' = EmptyObj
    /\ envVarNames' = <<>>
    /\ events' = walkConfigProperties(schema, <<>>,
                     [override |-> FALSE, env |-> env, options |-> opts'])
    /\ pc' = 0
    /\ status' = "running"
    /\ UNCHANGED <<op, args, ret, env, fs, schema, config, shared>>

\* overrideArrayValues up to the walk: it works on copies
OverrideStart ==
    /\ status = "ready" /\ op = "overrideArrayValues"
    /\ opts' = initialiseOptions(options)
    /\ result' = defaultsDeep(EmptyObj, <<config>>)
    /\ shared' = defaultsDeepShared(EmptyObj, <<config>>)
    /\ envVarNames' = <<>>
    /\ events' = walkConfigProperties(schema, <<>>,
                     [override |-> TRUE, env |-> env, options |-> opts'])
    /\ pc' = 0
    /\ status' = "running"
    /\ UNCHANGED <<op, args, ret, env, fs, schema, options, config>>

\* what the walk does next
Event == events[pc + 1]

\* the caller's object after the visitor wrote: a write below a value the
\* working object shares with it is a write to it
WrittenThrough(object, written) ==
    IF shared = {} THEN object
    ELSE [obj |-> [key \in DOMAIN object.obj |->
                     IF key \in shared /\ key \in DOMAIN written.obj
                     THEN written.obj[key] ELSE object.obj[key]]]

Visit(visited) ==
    /\ result' = visited.result
    /\ config' = WrittenThrough(config, visited.result)
    /\ envVarNames' = visited.ledger
    /\ pc' = pc + 1
    /\ ret' = visited.thrown
    /\ status' = IF visited.thrown # UNDEFINED THEN "thrown" ELSE "running"
    /\ UNCHANGED <<op, args, env, fs, schema, options, opts, events, shared>>

LoadVisitSchema ==
    /\ status = "running" /\ op = "loadFromEnv"
    /\ pc < Len(events) /\ Event.kind = "visitSchema"
    /\ Visit(loadVisitSchema(Event.schema, Event.path, env, fs, result,
                             envVarNames, opts))

OverrideVisitSchema ==
    /\ status = "running" /\ op = "overrideArrayValues"
    /\ pc < Len(events) /\ Event.kind = "visitSchema"
    /\ Visit(overrideVisitSchema(Event.schema, Event.path, env, fs, result,
                                 envVarNames, opts))

\* the walk meets a schema it does not support
WalkThrows ==
    /\ status = "running"
    /\ pc < Len(events) /\ Event.kind = "throw"
    /\ ret' = Throw(Event.class)
    /\ pc' = pc + 1
    /\ status' = "thrown"
    /\ UNCHANGED <<op, args, env, fs, schema, options, opts, config, result,
                   envVarNames, events, shared>>

\* the walk is over: the call returns the object it built
Return ==
    /\ status = "running"
    /\ pc = Len(events)
    /\ ret' = result
    /\ status' = "returned"
    /\ UNCHANGED <<op, args, env, fs, schema, options, opts, config, result,
                   envVarNames, events, pc, shared>>

NextPure ==
    \/ CallGetEnvVarName
    \/ CallParseEnvVarValue
    \/ CallWalkObjectArrayProperties
    \/ CallDiscoverUnnamedProperties
    \/ CallWalkConfigProperties
    \/ CallDiscoverAdditionalProperties
NextLoad == LoadStart \/ LoadVisitSchema \/ WalkThrows \/ Return
NextOverride == OverrideStart \/ OverrideVisitSchema \/ WalkThrows \/ Return

SpecPure == InitPure /\ [][NextPure]_vars
SpecLoad == InitLoad /\ [][NextLoad]_vars
SpecOverride == InitOverride /\ [][NextOverride]_vars

-----------------------------------------------------------------------------
(* Properties of the name codec and the value parser (SpecPure) *)

C1Segment(pathItem, o) ==
    IF ~pathItem.named THEN pathItem.value
    ELSE IF o.case = SnakeCaseStyle THEN snakeCase(pathItem.value)
    ELSE ToUpperCase(snakeCase(pathItem.value))

\* the segments of the path, each after the first preceded by the separator
RECURSIVE C1Joined(_, _)
C1Joined(path, o) ==
    IF path = <<>> THEN ""
    ELSE IF Len(path) = 1 THEN C1Segment(path[1], o)
    ELSE C1Joined(SubSeq(path, 1, Len(path) - 1), o)
         \o o.propertySeparator \o C1Segment(path[Len(path)], o)

C1Expected(path, o) ==
    IF o.prefix # ""
    THEN o.prefix \o o.propertySeparator \o C1Joined(path, o)
    ELSE C1Joined(path, o)

\* C1: getEnvVarName(path, options) is the path's segments joined in order by
\* options.propertySeparator, a named segment contributing its name in
\* snake_case or SCREAMING_SNAKE_CASE as options.case says and an unnamed
\* segment its value verbatim, with options.prefix and the separator in front
\* when a prefix is configured.
C1_NameIsJoinedSegments ==
    (op = "getEnvVarName" /\ status = "returned") =>
        /\ ret = JStr(C1Expected(args.path, args.options))
        /\ (/\ args.path = <<Named("camelCased"), Unnamed("camelCased")>>
            /\ args.options = Options(ScreamingStyle, "_", ""))
           => ret = JStr("CAMEL_CASED_camelCased")
        /\ (/\ args.path = <<Named("prop1")>>
            /\ args.options = Options(SnakeCaseStyle, "__", "app"))
           => ret = JStr("app__prop_1")

C1_Witness ==
    /\ op = "getEnvVarName" /\ status = "returned"
    /\ args.path = <<Named("camelCased"), Unnamed("camelCased")>>
    /\ args.options = Options(SnakeCaseStyle, "__", "app")
    /\ ret = JStr("app__camel_cased__camelCased")

\* what parsing under the k-th member of the type list alone gives
C6Member(k) ==
    parseEnvVarValue(args.value,
        [args.schema EXCEPT !.type = [t |-> args.schema.type.list[k]]])

C6Members == DOMAIN args.schema.type.list

\* C6: for a type list, parseEnvVarValue gives what the first member whose
\* parse is not undefined gives, later members not being tried (a later
\* member that is not supported does not make the call throw), and it gives
\* undefined only if every member's parse is undefined.
C6_FirstDefinedMemberWins ==
    (op = "parseEnvVarValue" /\ status # "ready"
        /\ IsTypeList(args.schema.type)) =>
        /\ \A k \in C6Members :
              (/\ C6Member(k) # UNDEFINED
               /\ \A j \in 1..(k - 1) : C6Member(j) = UNDEFINED)
              => ret = C6Member(k)
        /\ (ret = UNDEFINED) <=> (\A k \in C6Members : C6Member(k) = UNDEFINED)

C6_Witness ==
    /\ op = "parseEnvVarValue" /\ status = "returned"
    /\ args.value = "3.14"
    /\ args.schema.type = [list |-> <<"integer", "number", "string">>]
    /\ ret = JNum(314, 2)

-----------------------------------------------------------------------------
(* Properties of loadFromEnv (SpecLoad) *)

\* the value at the keys below v, undefined where the keys leave the objects
RECURSIVE ValueAt(_, _)
ValueAt(v, keys) ==
    IF keys = <<>> THEN v
    ELSE IF ~IsObj(v) THEN UNDEFINED
    ELSE ValueAt(Get(v, keys[1]), Tail(keys))

Defined(v) == v # UNDEFINED /\ ~IsThrow(v)

\* the i-th visitor call is a visitSchema of a path that names a variable
Visits(i) == events[i].kind = "visitSchema" /\ events[i].path # <<>>

NameOf(path) == getEnvVarName(path, opts)
FileNameOf(path) == NameOf(path) \o opts.propertySeparator \o "FILE"

Set(name) == \E i \in DOMAIN env : env[i].name = name
ValueOf(name) == env[CHOOSE i \in DOMAIN env : env[i].name = name].value

\* what the variable derived for the i-th visit's path parses to under the
\* visit's schema, undefined when the variable is not set
DirectParse(i) ==
    IF Set(NameOf(events[i].path))
    THEN parseEnvVarValue(ValueOf(NameOf(events[i].path)), events[i].schema)
    ELSE UNDEFINED

\* the same for the file the FILE variant points to, undefined also when the
\* file cannot be read or trims to nothing
FileParse(i) ==
    IF /\ Set(FileNameOf(events[i].path))
       /\ ValueOf(FileNameOf(events[i].path)) \in DOMAIN fs
       /\ Trim(fs[ValueOf(FileNameOf(events[i].path))]) # ""
    THEN parseEnvVarValue(Trim(fs[ValueOf(FileNameOf(events[i].path))]),
                          events[i].schema)
    ELSE UNDEFINED

LoadVisits ==
    /\ op = "loadFromEnv" /\ status = "running"
    /\ pc' = pc + 1 /\ Visits(pc + 1)

C2Step ==
    LoadVisits =>
        /\ result' # result =>
              \/ /\ Defined(DirectParse(pc + 1))
                 /\ ValueAt(result', Keys(Event.path)) = DirectParse(pc + 1)
              \/ /\ Defined(FileParse(pc + 1))
                 /\ ValueAt(result', Keys(Event.path)) = FileParse(pc + 1)
        /\ (DirectParse(pc + 1) = UNDEFINED /\ FileParse(pc + 1) = UNDEFINED)
              => result' = result /\ status' = "running"

\* C2: loadFromEnv gives a path a value only in a visit of the path in which
\* the variable derived for it, or the file its FILE variant names, is there
\* and parses under the visited schema, and the value is that parse; a visit
\* in which the variable is unset or does not parse and the file is unset,
\* unreadable, empty after trimming or does not parse leaves the result as it
\* was (the path absent, no ancestor created) and throws nothing.
C2_OnlyParsedValuesAreSet == [][C2Step]_vars

C2_Witness ==
    /\ op = "loadFromEnv" /\ status = "returned"
    /\ Set("N") /\ ValueOf("N") = "x"
    /\ Set("N_FILE") /\ ValueOf("N_FILE") = "/missing"
    /\ \E i \in DOMAIN events :
          Visits(i) /\ NameOf(events[i].path) = "N"
                    /\ events[i].schema.type = [t |-> "number"]
    /\ ret = EmptyObj

\* C3 (as stated): for every visited path whose variable and FILE variant are
\* both set and whose direct value parses under a schema visited for the path,
\* the returned value of the path is a parse of the direct value.
C3_DirectValueWins ==
    (op = "loadFromEnv" /\ status = "returned") =>
        \A i \in DOMAIN events :
            (/\ Visits(i)
             /\ Set(NameOf(events[i].path))
             /\ Set(FileNameOf(events[i].path))
             /\ Defined(DirectParse(i)))
            => \E j \in DOMAIN events :
                  /\ Visits(j) /\ events[j].path = events[i].path
                  /\ Defined(DirectParse(j))
                  /\ ValueAt(ret, Keys(events[i].path)) = DirectParse(j)

\* the i-th visit is of a path that derives the name
Derives(i, name) == Visits(i) /\ NameOf(events[i].path) = name

\* the ledger's entries for names read directly
DirectEntries ==
    {k \in DOMAIN envVarNames :
        envVarNames[k].name = NameOf(envVarNames[k].path)}

Loading == op = "loadFromEnv" /\ status \in {"running", "returned"}

\* C4 (as stated): a name two paths derive is recorded for the path visited
\* first.
C4_FirstVisitedPathOnly ==
    Loading =>
        \A k \in DirectEntries : \A j \in 1..pc :
            (/\ Derives(j, envVarNames[k].name)
             /\ \A h \in 1..(j - 1) : ~Derives(h, envVarNames[k].name))
            => events[j].path = envVarNames[k].path

C4Recorded ==
    Loading =>
        \A k \in DirectEntries : \E i \in 1..pc :
            /\ events[i].path = envVarNames[k].path
            /\ Defined(DirectParse(i))
            /\ \A j \in 1..(i - 1) :
                  Derives(j, envVarNames[k].name) => ~Defined(DirectParse(j))

C4Step ==
    (/\ LoadVisits
     /\ LedgerHas(envVarNames, NameOf(Event.path))
     /\ ~Set(FileNameOf(Event.path)))
    => result' = result /\ envVarNames' = envVarNames

\* C4 (amended): a name is recorded for the path of the first visit deriving
\* it in which the variable's value parses, and every later visit deriving
\* the name is skipped: it sets nothing from the variable.
C4_FirstParsedPathOnly == []C4Recorded /\ [][C4Step]_vars

C4_Witness ==
    /\ op = "loadFromEnv" /\ status = "returned"
    /\ Len(env) = 1 /\ Set("A_B") /\ ValueOf("A_B") = "x"
    /\ Get(ret, "a") = UNDEFINED
    /\ Get(ret, "aB") = JStr("x")
    /\ envVarNames = <<[name |-> "A_B", path |-> <<Named("aB")>>]>>

\* the visits of the path of the i-th visit
VisitsOf(i) ==
    {j \in DOMAIN events : Visits(j) /\ events[j].path = events[i].path}

\* C5 (as stated): the returned value of a path visited once per element of
\* an anyOf, oneOf or allOf list is what the variable parses to under the
\* first element under which it parses.
C5_FirstParsingElementWins ==
    (op = "loadFromEnv" /\ status = "returned") =>
        \A i \in DOMAIN events :
            (/\ Visits(i) /\ Cardinality(VisitsOf(i)) > 1
             /\ Defined(DirectParse(i))
             /\ \A j \in VisitsOf(i) : j < i => DirectParse(j) = UNDEFINED)
            => ValueAt(ret, Keys(events[i].path)) = DirectParse(i)

-----------------------------------------------------------------------------
(* Properties of overrideArrayValues (SpecOverride) *)

EveryAt(path) == findOnlyIndex(path, META_PATH_ITEM_EVERY)
EachAt(path) == findOnlyIndex(path, META_PATH_ITEM_EACH)

\* the path holds only the one marker, at index k, and names a property of
\* the elements
EveryPath(path, k) ==
    EveryAt(path) = k /\ EachAt(path) = -1 /\ k # -1 /\ Len(path) > k + 1
EachPath(path, k) ==
    EachAt(path) = k /\ EveryAt(path) = -1 /\ k # -1 /\ Len(path) > k + 1

\* the value of cfg at the items before the marker at index k, and the keys
\* after the marker
Target(cfg, path, k) == ValueAt(cfg, Keys(SubSeq(path, 1, k)))
Below(path, k) == Keys(SubSeq(path, k + 2, Len(path)))

\* what the variable derived for the i-th visit's path parses to as an array
\* of the visit's schema
EachParse(i) ==
    IF Set(NameOf(events[i].path))
    THEN parseEnvVarValue(ValueOf(NameOf(events[i].path)),
                          ArrayOf(events[i].schema))
    ELSE UNDEFINED

\* the object a differs from b at most at the keys, b's objects only
RECURSIVE SameExcept(_, _, _)
SameExcept(a, b, keys) ==
    IF keys = <<>> \/ ~IsObj(b) THEN TRUE
    ELSE IF ~IsObj(a) THEN FALSE
    ELSE /\ \A key \in (DOMAIN a.obj \cup DOMAIN b.obj) \ {keys[1]} :
               Get(a, key) = Get(b, key)
         /\ SameExcept(Get(a, keys[1]), Get(b, keys[1]), Tail(keys))

Overridden == op = "overrideArrayValues" /\ status = "returned"

\* the caller set the option
Flag(o, name) == name \in DOMAIN o /\ o[name]

\* the elements of the array the i-th visit targets hold v at the keys below
\* the marker at index k and are otherwise as in the input config
HoldExactly(i, k, v) ==
    /\ IsArr(Target(ret, events[i].path, k))
    /\ DOMAIN Target(ret, events[i].path, k).arr
          = DOMAIN Target(config, events[i].path, k).arr
    /\ \A n \in DOMAIN Target(config, events[i].path, k).arr :
          /\ ValueAt(Target(ret, events[i].path, k).arr[n],
                     Below(events[i].path, k)) = v
          /\ SameExcept(Target(ret, events[i].path, k).arr[n],
                        Target(config, events[i].path, k).arr[n],
                        Below(events[i].path, k))

\* C7 (as stated): when the only variable set is an every variable whose value
\* parses under the leaf schema, every element of the target array of the
\* result holds exactly the parsed value at the targeted path, and every other
\* property of every element is as in the input config.
C7_EveryElementHoldsValue ==
    (Overridden /\ Len(env) = 1) =>
        \A i \in DOMAIN events : \A k \in 0..Len(events[i].path) :
            (/\ Visits(i) /\ EveryPath(events[i].path, k)
             /\ Defined(DirectParse(i))
             /\ IsArr(Target(config, events[i].path, k)))
            => HoldExactly(i, k, DirectParse(i))

\* a holds v: a scalar v as it is, the members of an object or array v
RECURSIVE Includes(_, _)
Includes(a, v) ==
    IF IsObj(v) /\ IsObj(a)
    THEN \A key \in DOMAIN v.obj : Includes(Get(a, key), v.obj[key])
    ELSE IF IsArr(v) /\ IsArr(a)
    THEN \A n \in DOMAIN v.arr :
            n \in DOMAIN a.arr /\ Includes(a.arr[n], v.arr[n])
    ELSE a = v

\* the visitor's next call reads an each variable that is set, not consumed
\* before and parses to an array, for an array the config holds
EachVisit(k) ==
    /\ op = "overrideArrayValues" /\ status = "running"
    /\ pc' = pc + 1 /\ Visits(pc + 1)
    /\ EachPath(Event.path, k)
    /\ ~Flag(options, "extendTargetArrays")
    /\ ~Flag(options, "truncateTargetArrays")
    /\ ~LedgerHas(envVarNames, NameOf(Event.path))
    /\ Defined(EachParse(pc + 1))
    /\ IsArr(Target(result, Event.path, k))

EachApplied(k, V, old, new) ==
    /\ IsArr(new) /\ Len(new.arr) = Len(old.arr)
    /\ \A n \in DOMAIN old.arr :
          IF n <= Min(Len(V.arr), Len(old.arr))
          THEN Includes(ValueAt(new.arr[n], Below(Event.path, k)), V.arr[n])
          ELSE new.arr[n] = old.arr[n]

C8Step ==
    (pc < Len(events) /\ Event.kind = "visitSchema") =>
        \A k \in 0..Len(Event.path) :
            EachVisit(k) =>
                /\ status' = "running"
                /\ EachApplied(k, EachParse(pc + 1),
                               Target(result, Event.path, k),
                               Target(result', Event.path, k))

RECURSIVE OnlyAt(_, _)
OnlyAt(keys, v) ==
    IF keys = <<>> THEN v
    ELSE Put(EmptyObj, keys[1], OnlyAt(Tail(keys), v))

Markers(path) ==
    {i \in DOMAIN path :
        path[i] \in {META_PATH_ITEM_EVERY, META_PATH_ITEM_EACH}}

\* the names of the visited paths that hold two markers or more, and of those
\* that hold at most one
NestedNames ==
    {NameOf(events[i].path) :
        i \in {j \in DOMAIN events :
                  Visits(j) /\ Cardinality(Markers(events[j].path)) > 1}}
PlainNames ==
    {NameOf(events[i].path) :
        i \in {j \in DOMAIN events :
                  Visits(j) /\ Cardinality(Markers(events[j].path)) <= 1}}

C11Result ==
    (/\ Overridden
     /\ \A n \in DOMAIN env : env[n].name \in NestedNames \ PlainNames)
    => ret = config

C11Step ==
    (/\ op = "overrideArrayValues" /\ status = "running"
     /\ pc' = pc + 1 /\ Visits(pc + 1)
     /\ Cardinality(Markers(Event.path)) > 1)
    => result' = result /\ envVarNames' = envVarNames /\ status' = "running"

Targets ==
    {Keys(SubSeq(events[i].path, 1,
                 (CHOOSE k \in Markers(events[i].path) : TRUE) - 1)) :
        i \in {j \in DOMAIN events :
                  /\ Visits(j)
                  /\ Cardinality(Markers(events[j].path)) = 1
                  /\ Set(NameOf(events[j].path))}}

\* a and b, found at the keys, differ at most inside the elements of the
\* arrays at the target keys
RECURSIVE SameOutside(_, _, _, _)
SameOutside(a, b, keys, targets) ==
    IF keys \in targets /\ IsArr(a) /\ IsArr(b)
    THEN Len(a.arr) = Len(b.arr)
    ELSE IF IsObj(a) /\ IsObj(b)
    THEN /\ DOMAIN a.obj = DOMAIN b.obj
         /\ \A key \in DOMAIN a.obj :
               SameOutside(a.obj[key], b.obj[key], Append(keys, key), targets)
    ELSE a = b

Overriding == op = "overrideArrayValues" /\ status \in {"running", "returned"}

\* no step of the call writes to the caller's config, nor to a value the
\* working object shares with it
C13Step ==
    /\ config' = config
    /\ Overriding =>
          \A key \in shared :
              ValueAt(result', <<key>>) = ValueAt(result, <<key>>)

-----------------------------------------------------------------------------
(* Properties of the array test of overrideArrayValues (SpecPure) *)

Walked == op = "walkObjectArrayProperties" /\ status # "ready"

\* the walk went into the items: it visited a path with a marker
TakesPart ==
    \E i \in DOMAIN events :
        events[i].kind = "visitSchema" /\ Markers(events[i].path) # {}

\* the values of items (one, or the elements of a list) and additionalItems
\* that the test given holds for
AmongItems(s, Given(_)) ==
    (IF ~Given(s.items) THEN <<>>
     ELSE IF IsMany(s.items) THEN s.items.many ELSE <<s.items>>)
    \o (IF Given(s.additionalItems) THEN <<s.additionalItems>> ELSE <<>>)

AllEqualObjects(all) ==
    /\ \A i \in DOMAIN all :
          ~IsBoolean(all[i]) /\ all[i].type = [t |-> "object"]
    /\ \A i \in DOMAIN all : \A j \in DOMAIN all : isEqual(all[i], all[j])

IsDefined(x) == x # NONE
IsTruthy(x) == x # NONE /\ x # JBool(FALSE)

-----------------------------------------------------------------------------
(* The names overrideArrayValues looks up (SpecOverride) *)

\* the segment of a path item in a name: a marker as the test given says, a
\* declared property name in the case style, anything else as it is
C15Segment(pathItem, o, literal) ==
    IF pathItem \in {META_PATH_ITEM_EVERY, META_PATH_ITEM_EACH}
    THEN (IF literal \/ o.case = SnakeCaseStyle THEN pathItem.value
          ELSE ToUpperCase(pathItem.value))
    ELSE C1Segment(pathItem, o)

RECURSIVE C15Joined(_, _, _)
C15Joined(path, o, literal) ==
    IF Len(path) = 1 THEN C15Segment(path[1], o, literal)
    ELSE C15Joined(SubSeq(path, 1, Len(path) - 1), o, literal)
         \o o.propertySeparator \o C15Segment(path[Len(path)], o, literal)

C15Name(path, o, literal) ==
    IF o.prefix = "" THEN C15Joined(path, o, literal)
    ELSE o.prefix \o o.propertySeparator \o C15Joined(path, o, literal)

\* the names read so far are those of their paths, markers as the test says
C15Names(literal) ==
    Overriding =>
        \A k \in DOMAIN envVarNames :
            envVarNames[k].name = C15Name(envVarNames[k].path, opts, literal)

-----------------------------------------------------------------------------
(* Properties of the value parser for arrays and booleans (SpecPure) *)

ParsedCall == op = "parseEnvVarValue" /\ status # "ready"

\* the raw text is not a JSON array, so the comma-separated reading is used
ReadAsCSV(text, value) == IsThrow(value) \/ ~IsArr(value)

\* the comma-separated reading of the call's text meets a boolean where the
\* schema of an element is looked up: items itself, the element of an items
\* list at the element's index, or additionalItems past the list's end
ConsultsBooleanItem ==
    /\ args.schema.type = [t |-> "array"]
    /\ ReadAsCSV(args.value, JSONParse(args.value))
    /\ args.schema.items # UNDEFINED
    /\ \E i \in DOMAIN Split(args.value, ",") :
          IsBoolean(CSVItemSchema(i - 1, args.schema))

\* C16 (as stated): a boolean where the schema of an array element is
\* expected (items, an element of an items list, additionalItems) makes the
\* parse fail with UnsupportedSchema; it never gives undefined.
C16_BooleanSchemaThrows ==
    (ParsedCall /\ ConsultsBooleanItem) =>
        status = "thrown" /\ ret = Throw("UnsupportedSchema")

SupportedTypes ==
    {"null", "boolean", "string", "integer", "number", "array", "object"}

TypesOf(s) ==
    IF s.type = NONE THEN {}
    ELSE IF IsTypeList(s.type) THEN Range(s.type.list)
    ELSE {s.type.t}

\* the schema, or an item schema of it, has a type outside the supported
\* ones or a boolean for items
RECURSIVE Unsupported(_)
UnsupportedItems(items) ==
    IF items = NONE THEN FALSE
    ELSE IF IsBoolean(items) THEN TRUE
    ELSE IF IsMany(items)
    THEN \E i \in DOMAIN items.many :
            ~IsBoolean(items.many[i]) /\ Unsupported(items.many[i])
    ELSE Unsupported(items)
Unsupported(s) ==
    \/ TypesOf(s) \ SupportedTypes # {}
    \/ UnsupportedItems(s.items)
    \/ s.additionalItems # NONE /\ ~IsBoolean(s.additionalItems)
          /\ Unsupported(s.additionalItems)

\* the call parses under the single type array, and items is not a lone boolean
ArrayCall ==
    /\ ParsedCall
    /\ args.schema.type = [t |-> "array"]
    /\ ~IsBoolean(args.schema.items)

\* the schema that applies to the i-th (from 1) comma-separated element
C17Schema(s, i) ==
    IF ~IsMany(s.items) THEN s.items
    ELSE IF i <= Len(s.items.many) THEN s.items.many[i]
    ELSE s.additionalItems

C17Applies(s, i) == C17Schema(s, i) # UNDEFINED /\ ~IsBoolean(C17Schema(s, i))

C17Element(parts, s, i) == parseEnvVarValue(parts[i], C17Schema(s, i))

\* what the comma-separated reading of the parts gives
C17CSV(parts, s) ==
    IF \E i \in DOMAIN parts :
          ~C17Applies(s, i) \/ C17Element(parts, s, i) = UNDEFINED
    THEN UNDEFINED
    ELSE JArr([i \in DOMAIN parts |-> C17Element(parts, s, i)])

C17Expected(text, s, value) ==
    IF ~ReadAsCSV(text, value) THEN value ELSE C17CSV(Split(text, ","), s)

\* C17: under an array schema whose item schemas have supported types a
\* text that is a JSON array gives the parsed
\* array whatever items says; any other text is split on ',' and element i is
\* parsed against items, or against items[i] and past the end of the list
\* against additionalItems; the result is undefined when some element has no
\* item schema (items undefined included) or does not parse.
C17_ArrayIsJSONElseCSV ==
    (ArrayCall /\ ~Unsupported(args.schema)) =>
        /\ status = "returned"
        /\ ret = C17Expected(args.value, args.schema, JSONParse(args.value))

C17_Witness ==
    /\ ArrayCall
    /\ args.value = "1,2,3"
    /\ args.schema.items = [many |-> <<Type("integer"), Type("string")>>]
    /\ args.schema.additionalItems = Type("integer")
    /\ ret = JArr(<<JNum(1, 0), JStr("2"), JNum(3, 0)>>)

BooleanCall == ParsedCall /\ args.schema.type = [t |-> "boolean"]

-----------------------------------------------------------------------------
(* Properties of discoverUnnamedProperties (SpecPure) *)

\* a discovery under a schema without applicators and with at most one type
DiscoverCall ==
    /\ op = "discoverUnnamedProperties" /\ status # "ready"
    /\ FirstApplicator(args.schema) = ""
    /\ ~IsTypeList(args.schema.type)

\* the child's name suffix: separator + transformed name
C19NameSuffix(name, o) == o.propertySeparator \o transformPropertyName(name, o)

\* the name suffix occurs in the candidate at index, past the start, and the
\* end of the candidate or the separator follows it
C19SplitsAt(candidate, nameSuffix, sep, index) ==
    /\ index > 0
    /\ \/ index + Len(nameSuffix) = Len(candidate)
       \/ StartsWith(SubstringFrom(candidate, index + Len(nameSuffix)), sep)

C19Splits(candidate, nameSuffix, sep) ==
    C19SplitsAt(candidate, nameSuffix, sep, IndexOf(candidate, nameSuffix))

C19Before(candidate, nameSuffix) ==
    Substring(candidate, 0, IndexOf(candidate, nameSuffix))

\* the segments the candidate may give under an object schema
C19Cuts(candidate, nameSuffixes, sep) ==
    {C19Before(candidate, nameSuffixes[i]) :
        i \in {j \in DOMAIN nameSuffixes :
                  C19Splits(candidate, nameSuffixes[j], sep)}}

C19ObjectSegments(candidate, cuts) == IF cuts = {} THEN {candidate} ELSE cuts

C19ChildSuffixes(names, o) ==
    [i \in DOMAIN names |-> C19NameSuffix(names[i], o)]

C19Segments(candidate, s, o) ==
    IF s.type # [t |-> "object"] THEN {candidate}
    ELSE C19ObjectSegments(candidate,
             C19Cuts(candidate, C19ChildSuffixes(PropertyNames(s), o),
                     o.propertySeparator))

C19Property(property, candidate) ==
    /\ property.schema = args.schema
    /\ Len(property.path) = Len(args.path) + 1
    /\ SubSeq(property.path, 1, Len(args.path)) = args.path
    /\ ~property.path[Len(property.path)].named
    /\ property.path[Len(property.path)].value
           \in C19Segments(candidate, args.schema, args.options)

-----------------------------------------------------------------------------
(* Non-interference of unrelated variables in loadFromEnv (SpecLoad) *)

\* the visitor calls of a whole walk, from the k-th on: what loadFromEnv
\* returns or throws
RECURSIVE LoadRun(_, _, _, _, _, _, _)
LoadRunNext(walk, k, e, files, visited, o) ==
    IF visited.thrown # UNDEFINED THEN visited.thrown
    ELSE LoadRun(walk, k + 1, e, files, visited.result, visited.ledger, o)

LoadRun(walk, k, e, files, envConfig, ledger, o) ==
    IF k > Len(walk) THEN envConfig
    ELSE IF walk[k].kind = "throw" THEN Throw(walk[k].class)
    ELSE LoadRunNext(walk, k, e, files,
             loadVisitSchema(walk[k].schema, walk[k].path, e, files,
                             envConfig, ledger, o), o)

loadFromEnv(e, files, s, o) ==
    LoadRun(walkConfigProperties(s, <<>>,
                [override |-> FALSE, env |-> e, options |-> o]),
            1, e, files, EmptyObj, <<>>, o)

\* the environment without its i-th variable
Without(e, i) ==
    [j \in 1..(Len(e) - 1) |-> IF j < i THEN e[j] ELSE e[j + 1]]

\* the visited schema discovers unnamed properties
HasUnnamed(s) ==
    \/ s.patternProperties # NONE
    \/ s.additionalProperties # NONE /\ ~IsBoolean(s.additionalProperties)

\* the name is the derived name or the FILE variant of the k-th visit's path,
\* or starts with the name prefix of the object visited there
RelatedAt(name, k) ==
    /\ events[k].kind = "visitSchema"
    /\ \/ name = NameOf(events[k].path)
       \/ name = FileNameOf(events[k].path)
       \/ /\ HasUnnamed(events[k].schema)
          /\ StartsWith(name, getEnvVarNamePrefix(events[k].path, opts))

Unrelated(name) == \A k \in DOMAIN events : ~RelatedAt(name, k)

\* the text is a key, a string or the text of a number somewhere in v
RECURSIVE Occurs(_, _)
Occurs(text, v) ==
    IF IsObj(v)
    THEN \E key \in DOMAIN v.obj : key = text \/ Occurs(text, v.obj[key])
    ELSE IF IsArr(v)
    THEN \E i \in DOMAIN v.arr : Occurs(text, v.arr[i])
    ELSE v = JStr(text) \/ (IsNum(v) /\ v = parseNumber(text))

Loaded == op = "loadFromEnv" /\ status \in {"returned", "thrown"}

\* C20: a variable whose name is no path's derived name or FILE variant and
\* does not start with the name prefix of an object with patternProperties
\* or additionalProperties changes nothing: loadFromEnv gives what it gives
\* without the variable, and neither its name nor its value is in the result.
C20_UnrelatedVariableIgnored ==
    Loaded =>
        \A i \in DOMAIN env :
            Unrelated(env[i].name) =>
                /\ ret = loadFromEnv(Without(env, i), fs, schema, opts)
                /\ ~Occurs(env[i].name, ret)
                /\ ~Occurs(env[i].value, ret)

C20_Witness ==
    /\ Loaded /\ status = "returned"
    /\ ret # EmptyObj
    /\ \E i, j \in DOMAIN env :
          Unrelated(env[i].name) /\ ~Unrelated(env[j].name)

-----------------------------------------------------------------------------
(* Properties of walkConfigProperties (SpecPure) *)

WalkedNode == op = "walkConfigProperties" /\ status # "ready"

\* the visitor of the recorded walk
NodeVisitor ==
    [override |-> FALSE, env |-> args.env, options |-> DEFAULT_OPTIONS]

\* the list of the applicator honoured: anyOf before oneOf before allOf
C21Honoured(s) ==
    IF s.anyOf # NONE THEN s.anyOf.v
    ELSE IF s.oneOf # NONE THEN s.oneOf.v
    ELSE s.allOf.v

HasApplicator(s) == s.anyOf # NONE \/ s.oneOf # NONE \/ s.allOf # NONE

\* the walks of the list's elements against the path, one after the other
RECURSIVE C21Walks(_, _, _, _)
C21Walks(list, k, path, v) ==
    IF k > Len(list) THEN <<>>
    ELSE walkConfigProperties(list[k], path, v) \o C21Walks(list, k + 1, path, v)

\* C21: a node with anyOf, oneOf or allOf is walked as the elements of the
\* first of them in that order, against the node's own path, and nothing
\* else: no visitSchema for the node, none for its properties,
\* patternProperties, additionalProperties or a later applicator.
C21_OnlyFirstApplicatorWalked ==
    (WalkedNode /\ HasApplicator(args.schema)) =>
        /\ events = C21Walks(C21Honoured(args.schema), 1, args.path, NodeVisitor)
        /\ \A i \in DOMAIN events :
              /\ events[i].kind = "visitSchema"
              /\ events[i].schema # args.schema
              /\ events[i].path = args.path
                 \/ events[i].path = Append(args.path, Named("p"))

C21_Witness ==
    /\ WalkedNode /\ status = "returned"
    /\ args.schema.anyOf = NONE /\ args.schema.oneOf # NONE
    /\ args.schema.allOf # NONE /\ args.schema.properties # NONE
    /\ args.env # <<>>
    /\ events = <<VisitSchemaEvent(Type("number"), args.path)>>

-----------------------------------------------------------------------------
(* The order of the walk and of the writes in loadFromEnv (SpecLoad) *)

IsVisit(i) == events[i].kind = "visitSchema"

Parent(path) == SubSeq(path, 1, Len(path) - 1)

\* the first n segments of both paths are the same
SameUpTo(p, q, n) == Len(p) >= n /\ Len(q) >= n /\ SubSeq(p, 1, n) = SubSeq(q, 1, n)

\* the visits before the j-th of the parent of its path
ParentVisits(j) ==
    {i \in 1..(j - 1) : IsVisit(i) /\ events[i].path = Parent(events[j].path)}

\* the latest of them: the node the j-th visit is a child of
ParentVisit(j) == CHOOSE i \in ParentVisits(j) : \A h \in ParentVisits(j) : h <= i

PositionsOf(props, name) == {i \in DOMAIN props : props[i].name = name}
PatternsOf(props, s) == {i \in DOMAIN props : props[i].schema = s}
First(indexes) == CHOOSE i \in indexes : \A h \in indexes : i <= h
Count(keyword) == IF keyword = NONE THEN 0 ELSE Len(keyword.v)
ListOf(keyword) == IF keyword = NONE THEN <<>> ELSE keyword.v

\* where a child comes in the walk of its node: declared properties in the
\* order of declaration, then the patterns in their order, then the
\* additional properties
RankIn(node, item, s) ==
    IF item.named THEN First(PositionsOf(ListOf(node.properties), item.value))
    ELSE IF PatternsOf(ListOf(node.patternProperties), s) # {}
    THEN Count(node.properties)
         + First(PatternsOf(ListOf(node.patternProperties), s))
    ELSE Count(node.properties) + Count(node.patternProperties) + 1

Rank(j) ==
    RankIn(events[ParentVisit(j)].schema,
           events[j].path[Len(events[j].path)], events[j].schema)

IsChild(j) == IsVisit(j) /\ events[j].path # <<>>

\* the node first, then its children by rank, each child's walk complete
\* before the next child
C22Order ==
    /\ \A j \in DOMAIN events : IsChild(j) => ParentVisits(j) # {}
    /\ \A i, j \in DOMAIN events :
          (/\ i < j /\ IsChild(i) /\ IsChild(j)
           /\ ParentVisits(i) # {} /\ ParentVisits(j) # {}
           /\ ParentVisit(i) = ParentVisit(j))
          => Rank(i) <= Rank(j)
    /\ \A i, j, d \in DOMAIN events :
          (/\ i < j /\ j < d /\ IsChild(i) /\ IsChild(j) /\ IsVisit(d)
           /\ events[i].path[Len(events[i].path)].named
           /\ ParentVisit(i) = ParentVisit(j)
           /\ events[i].path # events[j].path)
          => ~SameUpTo(events[i].path, events[d].path, Len(events[i].path))

\* the j-th visit reads its variable: it is set, parses, and no earlier
\* visit took the name
Reads(j) ==
    /\ Visits(j) /\ Defined(DirectParse(j))
    /\ \A h \in 1..(j - 1) :
          Derives(h, NameOf(events[j].path)) => ~Defined(DirectParse(h))

\* the visits after the k-th that read a variable for the key below its path
ChildReads(k, key) ==
    {j \in DOMAIN events :
        /\ j > k /\ Reads(j)
        /\ Parent(events[j].path) = events[k].path
        /\ events[j].path[Len(events[j].path)].value = key}

\* no visit after the k-th reads a variable for a path further below the key
NoDeeperReads(k, key) ==
    \A j \in DOMAIN events :
        (j > k /\ Reads(j) /\ Len(events[j].path) > Len(events[k].path) + 1)
            => ~(/\ SameUpTo(events[j].path, events[k].path,
                             Len(events[k].path))
                 /\ events[j].path[Len(events[k].path) + 1].value = key)

NoFileVariables ==
    \A i \in DOMAIN env : ~EndsWith(env[i].name, "_FILE")

\* what the object read at the k-th visit holds at the key in the end
FinalAt(k, key) ==
    IF ChildReads(k, key) # {}
    THEN DirectParse(CHOOSE j \in ChildReads(k, key) :
                        \A h \in ChildReads(k, key) : h <= j)
    ELSE Get(DirectParse(k), key)

C22Written ==
    (op = "loadFromEnv" /\ status = "returned" /\ NoFileVariables) =>
        \A k \in DOMAIN events :
            (Reads(k) /\ IsObj(DirectParse(k))) =>
                \A key \in DOMAIN DirectParse(k).obj :
                    NoDeeperReads(k, key) =>
                        ValueAt(ret, Append(Keys(events[k].path), key))
                            = FinalAt(k, key)

\* C22: a node without applicators is visited first, then its declared
\* properties are walked in the order of declaration, each completely, then
\* its pattern properties, then its additional properties; so loadFromEnv
\* writes an object before its properties, and with the object's variable
\* (a JSON object) and a child's variable both set the result is the JSON
\* object with the child's field replaced by the child's value.
C22_NodeThenPropertiesInOrder ==
    (op = "loadFromEnv" /\ status # "ready") => C22Order /\ C22Written

C22_Witness ==
    /\ op = "loadFromEnv" /\ status = "returned"
    /\ Set("O") /\ ValueOf("O") = "{\"b\":5,\"k\":2}"
    /\ Set("O_B") /\ ValueOf("O_B") = "1"
    /\ Get(ret, "o") = JObj([key \in {"b", "k"} |->
                              IF key = "b" THEN JNum(1, 0) ELSE JNum(2, 0)])

-----------------------------------------------------------------------------
(* Names are consumed by successful parses only (SpecLoad) *)

\* the visit about to happen is of a discovered (pattern or additional)
\* property whose FILE variant is not set
DiscoveredVisit ==
    /\ LoadVisits
    /\ ~Event.path[Len(Event.path)].named
    /\ ~Set(FileNameOf(Event.path))

\* the earlier visits of named properties that derive the same name
NamedBefore ==
    {i \in 1..pc : /\ Derives(i, NameOf(Event.path))
                   /\ events[i].path[Len(events[i].path)].named}

\* no visit so far has parsed the variable of the name
Unparsed(name) ==
    \A i \in 1..pc : Derives(i, name) => ~Defined(DirectParse(i))

C23Step ==
    /\ (DiscoveredVisit /\ \E i \in NamedBefore : Defined(DirectParse(i)))
          => result' = result /\ envVarNames' = envVarNames
    /\ (DiscoveredVisit /\ NamedBefore # {} /\ Unparsed(NameOf(Event.path))
          /\ Defined(DirectParse(pc + 1)))
          => /\ ValueAt(result', Keys(Event.path)) = DirectParse(pc + 1)
             /\ LedgerHas(envVarNames', NameOf(Event.path))
    /\ (LoadVisits /\ ~Defined(DirectParse(pc + 1))
          /\ ~Defined(FileParse(pc + 1)))
          => envVarNames' = envVarNames

\* C23: a name is recorded as consumed only by a visit that parsed a value
\* from it: after a named property failed to parse the variable N, a pattern
\* or additional property deriving N is still set from it; after a named
\* property parsed N, no such property is set from it.
C23_ConsumedOnlyWhenParsed == [][C23Step]_vars

C23_Witness ==
    /\ op = "loadFromEnv" /\ status = "returned"
    /\ Len(env) = 1 /\ Set("O_B") /\ ValueOf("O_B") = "true"
    /\ ret = JObj([o \in {"o"} |-> JObj([B \in {"B"} |-> JBool(TRUE)])])
    /\ envVarNames = <<[name |-> "O_B", path |-> <<Named("o"), Unnamed("B")>>]>>

-----------------------------------------------------------------------------
(* Parent objects of a written path (SpecLoad) *)

\* no element of an applicator, no property and no item schema of the
\* schema is a boolean
RECURSIVE NoBooleanSchemas(_)
AllSchemas(list) ==
    \A i \in DOMAIN list : ~IsBoolean(list[i]) /\ NoBooleanSchemas(list[i])
AllProps(props) ==
    \A i \in DOMAIN props :
        ~IsBoolean(props[i].schema) /\ NoBooleanSchemas(props[i].schema)
NoBooleanSchemas(s) ==
    /\ AllSchemas(ListOf(s.anyOf)) /\ AllSchemas(ListOf(s.oneOf))
    /\ AllSchemas(ListOf(s.allOf))
    /\ AllProps(ListOf(s.properties)) /\ AllProps(ListOf(s.patternProperties))
    /\ s.additionalProperties = NONE \/ IsBoolean(s.additionalProperties)
         \/ NoBooleanSchemas(s.additionalProperties)
    /\ \/ s.items = NONE
       \/ IsMany(s.items) /\ AllSchemas(s.items.many)
       \/ ~IsMany(s.items) /\ ~IsBoolean(s.items) /\ NoBooleanSchemas(s.items)

\* C24 (as stated): for a schema of supported types without boolean
\* sub-schemas loadFromEnv never fails with 'Cannot recurse into non-object
\* property': where a parent object is expected, the object it builds never
\* holds another kind of value.
C24_ParentsAreObjects ==
    (op = "loadFromEnv" /\ NoBooleanSchemas(schema)) =>
        ~(status = "thrown" /\ ret = Throw("Error"))

-----------------------------------------------------------------------------
(* The markers are not keys of the overridden config (SpecOverride) *)

\* some object in v has the key
RECURSIVE HasKey(_, _)
HasKey(v, name) ==
    IF IsObj(v)
    THEN \E key \in DOMAIN v.obj : key = name \/ HasKey(v.obj[key], name)
    ELSE IF IsArr(v) THEN \E i \in DOMAIN v.arr : HasKey(v.arr[i], name)
    ELSE FALSE

\* C25 (as stated): no object of the config overrideArrayValues works on
\* gains a property named every or each, also when the variable of the
\* marker path itself (array + separator + every or each) is set to a value
\* that parses.
C25_MarkersAreNotKeys ==
    (op = "overrideArrayValues" /\ status # "ready") =>
        /\ HasKey(result, "every") => HasKey(config, "every")
        /\ HasKey(result, "each") => HasKey(config, "each")

-----------------------------------------------------------------------------
(* Overrides of an array the config does not hold (SpecOverride) *)

\* the i-th visit is of a property below one marker, and its variable is set
MarkedVisit(i) ==
    /\ Visits(i) /\ Set(NameOf(events[i].path))
    /\ \/ EveryPath(events[i].path, EveryAt(events[i].path))
       \/ EachPath(events[i].path, EachAt(events[i].path))

MarkerAt(path) == IF EveryAt(path) # -1 THEN EveryAt(path) ELSE EachAt(path)

\* the config holds nothing at the path of the array the visit is about
TargetAbsent(i) ==
    Target(config, events[i].path, MarkerAt(events[i].path)) = UNDEFINED

\* C27 (as stated): when the config holds no value at the path of every
\* array whose every/each variables are set (the array or an object above it
\* is absent), overrideArrayValues of a supported schema does not throw and
\* returns a config equal to the one it was given.
C27_AbsentArrayLeavesConfig ==
    (/\ op = "overrideArrayValues" /\ status \in {"returned", "thrown"}
     /\ NoBooleanSchemas(schema)
     /\ \E i \in DOMAIN events : MarkedVisit(i)
     /\ \A i \in DOMAIN events : MarkedVisit(i) => TargetAbsent(i))
    => status = "returned" /\ ret = config

-----------------------------------------------------------------------------
(* What parseEnvVarValue throws (SpecPure) *)

\* C26: parseEnvVarValue throws nothing for a text it cannot parse: under a
\* schema of supported types (one, a list, or none) it returns a value or
\* undefined; it throws only UnsupportedSchema, only under a schema with an
\* unsupported type or boolean items, and always under a single unsupported
\* type.
C26_ThrowsOnlyForUnsupportedSchema ==
    ParsedCall =>
        /\ status = "thrown" =>
              ret = Throw("UnsupportedSchema") /\ Unsupported(args.schema)
        /\ status = "returned" => ~IsThrow(ret)
        /\ (~IsTypeList(args.schema.type) /\ args.schema.type # NONE
              /\ args.schema.type.t \notin SupportedTypes)
              => status = "thrown"

C26_Witness ==
    /\ ParsedCall /\ status = "returned"
    /\ args.value = "1,{"
    /\ args.schema = ArrayOf(Type("object"))
    /\ ret = UNDEFINED

-----------------------------------------------------------------------------
(* Discovered paths derive the names they were discovered from (SpecPure) *)

\* the variables the discovery takes its candidates from, in order: those
\* whose names start with the name prefix of the parent path
C28Prefix(path, o) ==
    IF path = <<>> THEN "" ELSE getEnvVarName(path, o) \o o.propertySeparator

C28Starts(var) == StartsWith(var.name, C28Prefix(args.path, args.options))

C28Sources == SelectSeq(args.env, C28Starts)

\* the derived name is the variable's name, or a part of it from the start
\* that the separator follows
C28RoundTrip(derived, name, sep) == derived = name \/ StartsWith(name, derived \o sep)

\* C28 (as stated): the name getEnvVarName derives for the path of a
\* property discovered from a variable is the variable's name or a prefix of
\* it that the separator follows, for any naming options, a configured
\* prefix and the root as parent included.
C28_DiscoveredNameRoundTrips ==
    (op = "discoverAdditionalProperties" /\ status = "returned") =>
        /\ Len(ret.discovered) = Len(C28Sources)
        /\ \A i \in DOMAIN ret.discovered :
              C28RoundTrip(getEnvVarName(ret.discovered[i].path, args.options),
                           C28Sources[i].name, args.options.propertySeparator)

-----------------------------------------------------------------------------
(* The caller's options object (SpecLoad) *)

\* C29 (as stated): loadFromEnv leaves the options object it was given as it
\* was: fields the caller left out stay out, so a later overrideArrayValues
\* with the same object still applies its own defaults.
C29_OptionsUntouched == [][op = "loadFromEnv" => options' = options]_vars

-----------------------------------------------------------------------------
(* The ledger of consumed names (SpecLoad) *)

\* the k-th entry was recorded by a visit of its path, made so far, in which
\* the variable of the name, or the file the variable names, parsed
C30Parsed(k) ==
    \E i \in 1..pc :
        /\ IsVisit(i) /\ events[i].path = envVarNames[k].path
        /\ \/ /\ envVarNames[k].name = NameOf(events[i].path)
              /\ Defined(DirectParse(i))
           \/ /\ envVarNames[k].name = FileNameOf(events[i].path)
              /\ Defined(FileParse(i))

C30Ledger ==
    /\ status = "ready" => envVarNames = <<>>
    /\ (status = "running" /\ pc = 0) => envVarNames = <<>>
    /\ status # "ready" =>
          \A k \in DOMAIN envVarNames :
              /\ Set(envVarNames[k].name)
              /\ C30Parsed(k)
              /\ \A h \in DOMAIN envVarNames :
                    envVarNames[h].name = envVarNames[k].name => h = k

C30Step ==
    status # "ready" =>
        \A k \in DOMAIN envVarNames :
            k \in DOMAIN envVarNames' /\ envVarNames'[k] = envVarNames[k]

====
